---- MODULE Spec2Model ----
(***************************************************************************)
(* A model of the draft lifecycle of the Faytuks engine: the file-backed   *)
(* draft store (DraftManager), the command-line operations on it, the      *)
(* independently running posting tool (twitter_poster.py) and the          *)
(* ingestion cycle (FaytuksDaemon).                                        *)
(*                                                                         *)
(* Strings of the program are modelled as sequences of tokens, so that     *)
(* formatting an identifier and glob matching are computed, not assumed.   *)
(* A directory is a function from file names to the JSON record stored in  *)
(* the file.  The wall clock is a counter of seconds.                      *)
(***************************************************************************)
EXTENDS Integers, Sequences, FiniteSets, TLC

VARIABLES
    clock,      \* the wall clock, in seconds
    pending,    \* drafts/pending : file name -> record
    approved,   \* drafts/approved
    posted,     \* drafts/posted
    epc,        \* engine invocation: position in the running handler
    ecall,      \* engine: the handler that runs or ran last
    earg,       \* engine: the draft_id argument of the running handler
    etweet,     \* engine: the tweet_id argument of mark_posted
    ef,         \* engine: the path f the glob loop is at
    edraft,     \* engine: the record loaded by mark_posted
    eret,       \* engine: result of the last handler
    elist,      \* engine: the drafts list_pending has loaded, then the list it returned
    eglob,      \* engine: the paths the glob of list_pending has still to yield
    ppc,        \* posting tool: position in post_tweet
    parg,       \* posting tool: the draft_id argument
    ppath,      \* posting tool: draft_path
    pdraft,     \* posting tool: the loaded draft
    pret,       \* posting tool: result of the last run
    ops,        \* number of engine commands started
    posts,      \* number of posting tool runs started
    nCreate,    \* history: number of save_draft calls
    nReject,    \* history: number of reject commands that deleted a record
    left,       \* history: <<file, collection, how>> for every departure
    buckets,    \* the bucket source files: file -> "missing" or list of tweets
    cmd,        \* ingestion: which command runs ("none", "cycle", "refresh")
    cpc,        \* ingestion: position in the command
    breaking,   \* ingestion: scrape result of the breaking bucket
    commentary, \* ingestion: scrape result of the commentary bucket
    geopolitics,\* ingestion: scrape result of the geopolitics bucket
    cidx,       \* ingestion: index of the loop
    cpath,      \* ingestion: path returned by the last save_draft
    cid,        \* ingestion: the draft_id local of the refresh command
    created,    \* ingestion: <<file, bucket, tweet>> per save_draft of the command
    autoApproved, \* history: tweets whose draft approve_draft moved in the command
    claude,     \* ingestion: whether a Claude client is given to the command
    results,    \* ingestion: the dict that run_cycle returns
    faults,     \* history: the failures that happened inside the command
    xpc,        \* enrichment: position in the enrich command
    xarg,       \* enrichment: the --draft argument
    xpath,      \* enrichment: draft_path, <<folder, file name>>
    xdraft,     \* enrichment: the loaded draft
    xctx,       \* enrichment: the pattern and the historical context computed
    xresp,      \* enrichment: the response of the Claude client
    xret,       \* enrichment: how the last enrichment ended, or what it returned
    dtext,      \* detection: the text given to auto_detect_pattern
    dmatches,   \* detection: the list auto_detect_pattern returned
    dbest,      \* detection: what TweetEnricher.detect_pattern returned
    hfile,      \* generation history: the text of the shared document on disk
    history,    \* generation history: self.history of the CorpusManager
    hcall,      \* generation history: the method called last
    hret,       \* generation history: what the last call returned or raised
    hadded,     \* history: the draft summaries of the document, then those added
    hpub,       \* history: the published entries of the document, then those added
    hforeign,   \* history: the entries the counterpart system appended
    hops,       \* number of CorpusManager calls made
    dpc,        \* daemon command: position in its loop
    dcycle,     \* daemon command: the local cycle
    dinterval,  \* daemon command: args.interval
    kfiles,     \* knowledge base: registry key -> text of the file, or absent
    kdata,      \* knowledge base: self.data of the KnowledgeBase
    kcall,      \* knowledge base: the method called last
    kargs,      \* knowledge base: its arguments
    kret,       \* knowledge base: what the last call returned or raised
    tpc,        \* posting tool invocations: position of each in its function
    tpath,      \* posting tool invocations: draft_path of each
    tdraft,     \* posting tool invocations: the draft each has loaded
    tret,       \* posting tool invocations: how each ended
    sent        \* history: the drafts sent to the external service, in order

storeVars == <<pending, approved, posted>>
engVars == <<epc, ecall, earg, etweet, ef, edraft, eret, elist, eglob>>
postVars == <<ppc, parg, ppath, pdraft, pret>>
histVars == <<nCreate, nReject, left>>
cycleVars == <<buckets, cmd, cpc, breaking, commentary, geopolitics, cidx, cpath,
               cid, created, autoApproved, claude, results, faults>>
enrichVars == <<xpc, xarg, xpath, xdraft, xctx, xresp, xret>>
detectVars == <<dtext, dmatches, dbest>>
corpusVars == <<hfile, history, hcall, hret, hadded, hpub, hforeign, hops>>
daemonVars == <<dpc, dcycle, dinterval>>
kbVars == <<kfiles, kdata, kcall, kargs, kret>>
publishVars == <<tpc, tpath, tdraft, tret, sent>>
libVars == <<corpusVars, daemonVars, kbVars, publishVars>>
draftVars == <<storeVars, engVars, postVars, ops, posts, histVars, cycleVars,
               enrichVars, detectVars>>
vars == <<clock, storeVars, engVars, postVars, ops, posts, histVars, cycleVars,
          enrichVars, detectVars, libVars>>

-----------------------------------------------------------------------------
(* Bounds of the model *)

Clock0 == 100000      \* the second at which a behaviour starts
MaxTicks == 1         \* how many seconds may pass in a behaviour
MaxOps == 4           \* how many engine commands are started
MaxPosts == 1         \* how many posting tool runs are started

ClockRange == Clock0..(Clock0 + MaxTicks)

-----------------------------------------------------------------------------
(* Strings *)

None == <<"None">>

Digit(d) == CASE d = 0 -> "0" [] d = 1 -> "1" [] d = 2 -> "2" [] d = 3 -> "3"
              [] d = 4 -> "4" [] d = 5 -> "5" [] d = 6 -> "6" [] d = 7 -> "7"
              [] d = 8 -> "8" [] d = 9 -> "9"

RECURSIVE Decimal(_)
Decimal(n) == IF n < 10 THEN <<Digit(n)>> ELSE Decimal(n \div 10) \o <<Digit(n % 10)>>

\* datetime.now().strftime("%Y%m%d_%H%M%S"): the second, in fixed-width digits
strftime(t) == Decimal(t)

\* datetime.now().isoformat()
isoformat(t) == <<"T">> \o Decimal(t)

\* s occurs in t as a contiguous substring
IsInfix(s, t) ==
    \E i \in 0..(Len(t) - Len(s)) : SubSeq(t, i + 1, i + Len(s)) = s

\* Path.stem of a file name ending in ".json"
Stem(name) == SubSeq(name, 1, Len(name) - 1)

\* the name pending_dir / f"draft_{draft_id}.json"
DraftFile(id) == <<"draft_">> \o id \o <<".json">>

\* fnmatch of a file name against the pattern f"*{draft_id}*.json"
fnmatch(name, frag) ==
    /\ Len(name) >= 1
    /\ name[Len(name)] = ".json"
    /\ IsInfix(frag, Stem(name))

\* a glob that forgets the draft_id: "*.json"
Glob_AnyJson(dir, frag) == {n \in DOMAIN dir : n[Len(n)] = ".json"}

\* Path.glob(f"*{draft_id}*.json") on one directory: the matching paths
\* (the order in which glob yields them is the file system's)
Glob(dir, frag) == {n \in DOMAIN dir : fnmatch(n, frag)}

\* str.__lt__ on strings of digits and "T": lexicographic order
TokOrd(c) == CASE c = "0" -> 0 [] c = "1" -> 1 [] c = "2" -> 2 [] c = "3" -> 3
               [] c = "4" -> 4 [] c = "5" -> 5 [] c = "6" -> 6 [] c = "7" -> 7
               [] c = "8" -> 8 [] c = "9" -> 9 [] OTHER -> 10

RECURSIVE StrLess(_, _)
StrLess(a, b) ==
    IF b = <<>> THEN FALSE
    ELSE IF a = <<>> THEN TRUE
    ELSE IF TokOrd(Head(a)) # TokOrd(Head(b)) THEN TokOrd(Head(a)) < TokOrd(Head(b))
    ELSE StrLess(Tail(a), Tail(b))

-----------------------------------------------------------------------------
(* Files *)

NoFile == <<>>
NoDraft == [id |-> None]

\* the content of a file that json.load rejects
Malformed == [id |-> <<"malformed">>]
EmptyDir == <<>>

\* open(path, 'w') + json.dump: create or overwrite
Write(dir, name, rec) ==
    [n \in DOMAIN dir \cup {name} |-> IF n = name THEN rec ELSE dir[n]]

\* Path.unlink
Remove(dir, name) == [n \in DOMAIN dir \ {name} |-> dir[n]]

\* the record that save_draft builds
NewDraft(t, english, persian, pattern, sources) ==
    [id |-> strftime(t), created_at |-> isoformat(t), status |-> "pending",
     pattern |-> pattern, english |-> english, persian |-> persian,
     media |-> <<>>, hashtags |-> <<>>, sources |-> sources,
     posted_at |-> None, tweet_id |-> None]

\* the departures of one step, added to the history
Departed(how, p2, a2, po2) ==
    left \cup {<<n, "pending", how>> : n \in DOMAIN pending \ DOMAIN p2}
         \cup {<<n, "approved", how>> : n \in DOMAIN approved \ DOMAIN a2}
         \cup {<<n, "posted", how>> : n \in DOMAIN posted \ DOMAIN po2}

-----------------------------------------------------------------------------
(* Inputs of the commands *)

Texts == {<<"fire", "in", "Rasht">>, <<"hello">>}
TweetIds == {None, <<"7", "7">>}

\* a shortened identifier: the identifier without its last digit
Shortened(id) == SubSeq(id, 1, Len(id) - 1)

\* the draft_id arguments: every full identifier and a shortened one
Frags == {strftime(t) : t \in ClockRange} \cup {Shortened(strftime(Clock0))}

\* the draft_id arguments given to the posting tool
PostArgs == {strftime(t) : t \in ClockRange}
              \cup {<<"draft_">> \o strftime(Clock0)}

-----------------------------------------------------------------------------
(* DraftManager *)

\* a handler returns: its locals are gone
EngIdle == epc' = "idle" /\ ef' = NoFile /\ edraft' = NoDraft /\ eglob' = <<>>

\* a handler is called with its arguments
Call(name, id, tid) == ecall' = name /\ earg' = id /\ etweet' = tid

\* DraftManager.save_draft: the store effect; returns PendingPath
PendingPath == DraftFile(strftime(clock))

save_draft(english, persian, pattern, sources) ==
    /\ pending' = Write(pending, PendingPath,
                        NewDraft(clock, english, persian, pattern, sources))
    /\ UNCHANGED <<approved, posted>>
    /\ nCreate' = nCreate + 1
    /\ UNCHANGED <<nReject, left>>

\* main: draft --save
CmdSave ==
    /\ epc = "idle" /\ ops < MaxOps
    /\ \E e \in Texts : save_draft(e, <<>>, <<"unknown">>, <<>>)
    /\ ops' = ops + 1
    /\ Call("save_draft", NoFile, None)
    /\ EngIdle /\ eret' = "path" /\ elist' = <<>>
    /\ UNCHANGED <<clock, postVars, posts, cycleVars, enrichVars, detectVars, libVars>>

\* the orders in which a glob can yield the paths of a set
GlobOrders(S) ==
    LET n == Cardinality(S)
    IN {o \in [1..n -> S] : \A i, j \in 1..n : i # j => o[i] # o[j]}

\* DraftManager.list_pending, the glob of "*.json"
list_pending_glob ==
    /\ epc = "idle" /\ ops < MaxOps
    /\ ops' = ops + 1
    /\ Call("list_pending", NoFile, None)
    /\ eglob' \in GlobOrders({n \in DOMAIN pending : n[Len(n)] = ".json"})
    /\ epc' = "list_read" /\ eret' = "running" /\ elist' = <<>>
    /\ UNCHANGED <<ef, edraft>>
    /\ UNCHANGED <<clock, storeVars, postVars, posts, histVars, cycleVars, enrichVars,
                   detectVars, libVars>>

\* open(f, 'r') + json.load of the next path; raises when the file is gone
\* or is not JSON, and the exception leaves list_pending
list_pending_read ==
    /\ epc = "list_read" /\ eglob # <<>>
    /\ IF Head(eglob) \in DOMAIN pending /\ pending[Head(eglob)] # Malformed
       THEN /\ elist' = Append(elist, pending[Head(eglob)])
            /\ eglob' = Tail(eglob)
            /\ UNCHANGED <<epc, ef, edraft, eret>>
       ELSE EngIdle /\ eret' = "raised" /\ elist' = <<>>
    /\ UNCHANGED <<ecall, earg, etweet>>
    /\ UNCHANGED <<clock, storeVars, postVars, ops, posts, histVars, cycleVars,
                   enrichVars, detectVars, libVars>>

\* a sort that leaves the drafts in the order of the glob
InsertByCreated_Last(s, x) == Append(s, x)

\* sorted(drafts, key=created_at, reverse=True): stable, descending
RECURSIVE InsertByCreated(_, _)
InsertByCreated(s, x) ==
    IF s = <<>> THEN <<x>>
    ELSE IF ~StrLess(Head(s).created_at, x.created_at)
    THEN <<Head(s)>> \o InsertByCreated(Tail(s), x)
    ELSE <<x>> \o s

RECURSIVE SortByCreated(_)
SortByCreated(s) ==
    IF s = <<>> THEN <<>>
    ELSE InsertByCreated(SortByCreated(SubSeq(s, 1, Len(s) - 1)), s[Len(s)])

\* the glob is exhausted: list_pending returns the sorted list
list_pending_return ==
    /\ epc = "list_read" /\ eglob = <<>>
    /\ elist' = SortByCreated(elist)
    /\ eret' = "list"
    /\ EngIdle
    /\ UNCHANGED <<ecall, earg, etweet>>
    /\ UNCHANGED <<clock, storeVars, postVars, ops, posts, histVars, cycleVars,
                   enrichVars, detectVars, libVars>>

\* DraftManager.approve_draft, the glob: the first path it yields, or none
approve_draft_glob ==
    /\ epc = "idle" /\ ops < MaxOps
    /\ ops' = ops + 1
    /\ \E frag \in Frags :
         /\ Call("approve_draft", frag, None)
         /\ IF Glob(pending, frag) = {}
            THEN EngIdle /\ eret' = "false"
            ELSE /\ \E f \in Glob(pending, frag) : ef' = f
                 /\ epc' = "approve_rename" /\ eret' = "running"
                 /\ UNCHANGED <<edraft, eglob>>
    /\ elist' = <<>>
    /\ UNCHANGED <<clock, storeVars, postVars, posts, histVars, cycleVars, enrichVars, detectVars, libVars>>

\* the store effect of f.rename(dest); raises when f is gone
Rename(f) ==
    IF f \in DOMAIN pending
    THEN /\ approved' = Write(approved, f, pending[f])
         /\ pending' = Remove(pending, f)
         /\ posted' = posted
         /\ left' = Departed("moved", pending', approved', posted')
    ELSE UNCHANGED <<storeVars, left>>

approve_draft_rename ==
    /\ epc = "approve_rename"
    /\ Rename(ef)
    /\ eret' = IF ef \in DOMAIN pending THEN "true" ELSE "raised"
    /\ EngIdle
    /\ UNCHANGED <<clock, ecall, earg, etweet, elist, postVars, ops, posts, nCreate,
                   nReject, cycleVars, enrichVars, detectVars, libVars>>

\* DraftManager.mark_posted, the glob
mark_posted_glob ==
    /\ epc = "idle" /\ ops < MaxOps
    /\ ops' = ops + 1
    /\ \E frag \in Frags, tid \in TweetIds :
         /\ Call("mark_posted", frag, tid)
         /\ IF Glob(approved, frag) = {}
            THEN EngIdle /\ eret' = "false"
            ELSE /\ \E f \in Glob(approved, frag) : ef' = f
                 /\ epc' = "mark_read" /\ eret' = "running"
                 /\ UNCHANGED <<edraft, eglob>>
    /\ elist' = <<>>
    /\ UNCHANGED <<clock, storeVars, postVars, posts, histVars, cycleVars, enrichVars, detectVars, libVars>>

\* open(f, 'r') + json.load; raises when f is gone or is not JSON
mark_posted_read ==
    /\ epc = "mark_read"
    /\ IF ef \in DOMAIN approved /\ approved[ef] # Malformed
       THEN /\ edraft' = approved[ef]
            /\ epc' = "mark_write"
            /\ UNCHANGED <<ef, eret, eglob>>
       ELSE EngIdle /\ eret' = "raised"
    /\ UNCHANGED <<ecall, earg, etweet>>
    /\ UNCHANGED <<clock, storeVars, elist, postVars, ops, posts, histVars, cycleVars, enrichVars, detectVars, libVars>>

\* a mark_posted that does not store the tweet id
MarkedDraft_NoTweetId(draft, t, tid) ==
    [draft EXCEPT !.status = "posted", !.posted_at = isoformat(t)]

\* the record mark_posted writes
MarkedDraft(draft, t, tid) ==
    [draft EXCEPT !.status = "posted", !.posted_at = isoformat(t), !.tweet_id = tid]

\* open(dest, 'w') + json.dump
mark_posted_write ==
    /\ epc = "mark_write"
    /\ posted' = Write(posted, ef, MarkedDraft(edraft, clock, etweet))
    /\ epc' = "mark_unlink"
    /\ UNCHANGED <<clock, pending, approved, ecall, earg, etweet, ef, edraft, eret,
                   elist, eglob, postVars, ops, posts, histVars, cycleVars, enrichVars,
                   detectVars, libVars>>

\* f.unlink(); raises when f is gone
mark_posted_unlink ==
    /\ epc = "mark_unlink"
    /\ approved' = Remove(approved, ef)
    /\ UNCHANGED <<pending, posted>>
    /\ left' = Departed("moved", pending', approved', posted')
    /\ eret' = IF ef \in DOMAIN approved THEN "true" ELSE "raised"
    /\ EngIdle
    /\ UNCHANGED <<clock, ecall, earg, etweet, elist, postVars, ops, posts, nCreate,
                   nReject, cycleVars, enrichVars, detectVars, libVars>>

\* main: draft --reject / queue reject: in each of pending and approved, the
\* first path the glob yields is unlinked (break leaves the inner loop only)
FirstOf(S) == IF S = {} THEN {NoFile} ELSE S

reject ==
    /\ epc = "idle" /\ ops < MaxOps
    /\ ops' = ops + 1
    /\ \E frag \in Frags :
         /\ Call("reject", frag, None)
         /\ \E fp \in FirstOf(Glob(pending, frag)), fa \in FirstOf(Glob(approved, frag)) :
            /\ pending' = Remove(pending, fp)
            /\ approved' = Remove(approved, fa)
            /\ posted' = posted
            /\ eret' = IF fp = NoFile /\ fa = NoFile THEN "not found" ELSE "deleted"
    /\ left' = Departed("deleted", pending', approved', posted')
    /\ nReject' = IF eret' = "deleted" THEN nReject + 1 ELSE nReject
    /\ nCreate' = nCreate
    /\ EngIdle /\ elist' = <<>>
    /\ UNCHANGED <<clock, postVars, posts, cycleVars, enrichVars, detectVars, libVars>>

\* the media paths given to attach
MediaPaths == {<<"photo.jpg">>}

\* draft['media'] = draft.get('media', []) + [media_path]
AttachedDraft(draft, media_path) ==
    [draft EXCEPT !.media = Append(@, media_path)]

\* main: draft --attach / queue attach: in each of pending and approved, the
\* first path the glob yields is loaded and written back with the media path
attach ==
    /\ epc = "idle" /\ ops < MaxOps
    /\ ops' = ops + 1
    /\ \E frag \in Frags, media_path \in MediaPaths :
         /\ Call("attach", frag, None)
         /\ \E fp \in FirstOf(Glob(pending, frag)), fa \in FirstOf(Glob(approved, frag)) :
            /\ pending' = IF fp = NoFile THEN pending
                          ELSE Write(pending, fp, AttachedDraft(pending[fp], media_path))
            /\ approved' = IF fa = NoFile THEN approved
                           ELSE Write(approved, fa, AttachedDraft(approved[fa], media_path))
            /\ posted' = posted
            /\ eret' = IF fp = NoFile /\ fa = NoFile THEN "not found" ELSE "attached"
    /\ EngIdle /\ elist' = <<>>
    /\ UNCHANGED <<clock, postVars, posts, histVars, cycleVars, enrichVars, detectVars, libVars>>

-----------------------------------------------------------------------------
(* twitter_poster.py: post_tweet *)

PostIdle == /\ ppc' = "idle" /\ parg' = NoFile /\ ppath' = NoFile /\ pdraft' = NoDraft

\* the look-up of draft_path: the exact name, then the name with draft_ prefix
post_tweet_find ==
    /\ ppc = "idle" /\ posts < MaxPosts
    /\ posts' = posts + 1
    /\ \E a \in PostArgs :
         LET p1 == a \o <<".json">>
             p2 == <<"draft_">> \o a \o <<".json">>
             path == IF p1 \in DOMAIN approved THEN p1 ELSE p2
         IN IF path \in DOMAIN approved
            THEN /\ ppc' = "post_read" /\ parg' = a /\ ppath' = path
                 /\ pret' = "running" /\ pdraft' = pdraft
            ELSE PostIdle /\ pret' = "not found"
    /\ UNCHANGED <<clock, storeVars, engVars, ops, histVars, cycleVars, enrichVars, detectVars, libVars>>

\* open(draft_path) + json.load and the choice of the tweet text
post_tweet_read ==
    /\ ppc = "post_read"
    /\ IF ppath \notin DOMAIN approved \/ approved[ppath] = Malformed
       THEN PostIdle /\ pret' = "raised"
       ELSE IF approved[ppath].english = <<>>
       THEN PostIdle /\ pret' = "no text"
       ELSE /\ pdraft' = approved[ppath] /\ ppc' = "post_browser"
            /\ UNCHANGED <<parg, ppath, pret>>
    /\ UNCHANGED <<clock, storeVars, engVars, ops, posts, histVars, cycleVars, enrichVars, detectVars, libVars>>

\* the browser session: the tweet is posted, or the session fails
post_tweet_browser ==
    /\ ppc = "post_browser"
    /\ \/ ppc' = "post_write" /\ UNCHANGED <<parg, ppath, pdraft, pret>>
       \/ PostIdle /\ pret' = "error"
    /\ UNCHANGED <<clock, storeVars, engVars, ops, posts, histVars, cycleVars, enrichVars, detectVars, libVars>>

\* the record post_tweet writes
PostedDraft(draft, t) ==
    [k \in DOMAIN draft \cup {"posted_at", "tweet_url"} |->
        IF k = "posted_at" THEN isoformat(t)
        ELSE IF k = "tweet_url" THEN <<"url">>
        ELSE draft[k]]

post_tweet_write ==
    /\ ppc = "post_write"
    /\ posted' = Write(posted, ppath, PostedDraft(pdraft, clock))
    /\ ppc' = "post_unlink"
    /\ UNCHANGED <<clock, pending, approved, parg, ppath, pdraft, pret, engVars,
                   ops, posts, histVars, cycleVars, enrichVars, detectVars, libVars>>

\* draft_path.unlink(); a missing file raises into the except clause
post_tweet_unlink ==
    /\ ppc = "post_unlink"
    /\ approved' = Remove(approved, ppath)
    /\ UNCHANGED <<pending, posted>>
    /\ left' = Departed("moved", pending', approved', posted')
    /\ pret' = IF ppath \in DOMAIN approved THEN "url" ELSE "error"
    /\ PostIdle
    /\ UNCHANGED <<clock, engVars, ops, posts, nCreate, nReject, cycleVars, enrichVars, detectVars, libVars>>

-----------------------------------------------------------------------------
(* The clock *)

Tick ==
    /\ clock < Clock0 + MaxTicks
    /\ clock' = clock + 1
    /\ UNCHANGED <<storeVars, engVars, postVars, ops, posts, histVars, cycleVars, enrichVars, detectVars, libVars>>

-----------------------------------------------------------------------------
(* The draft store under its commands and the posting tool *)

NoBuckets == <<>>
NoResults == [drafts_created |-> <<>>, errors |-> <<>>]
NoContext == [facts |-> <<>>, era |-> None, pattern |-> None]

\* no enrich command has run
NoEnrichment ==
    /\ xpc = "idle" /\ xarg = NoFile /\ xpath = NoFile /\ xdraft = NoDraft
    /\ xctx = NoContext /\ xresp = None /\ xret = "none"

\* no text has been given to the pattern detection
NoDetection == dtext = <<>> /\ dmatches = <<>> /\ dbest = None

\* the shared document does not exist
Absent == [t |-> "absent", v |-> <<>>]
\* no CorpusManager has been constructed
NotLoaded == [t |-> "not loaded", v |-> <<>>]

\* the generation history is not in use
NoCorpus ==
    /\ hfile = Absent /\ history = NotLoaded /\ hcall = "none" /\ hret = None
    /\ hadded = <<>> /\ hpub = <<>> /\ hforeign = {} /\ hops = 0

\* the daemon command does not run
NoDaemon == dpc = "off" /\ dcycle = 0 /\ dinterval = 0

\* no KnowledgeBase is looked at
NoKB == kfiles = <<>> /\ kdata = NotLoaded /\ kcall = "none" /\ kargs = <<>> /\ kret = None

\* the invocations of the posting tool that run side by side
Tools == {1, 2}

\* no side-by-side invocation of the posting tool runs
NoPublish ==
    /\ tpc = [i \in Tools |-> "off"] /\ tpath = [i \in Tools |-> NoFile]
    /\ tdraft = [i \in Tools |-> NoDraft] /\ tret = [i \in Tools |-> "none"]
    /\ sent = <<>>

NoLibrary == NoCorpus /\ NoDaemon /\ NoKB /\ NoPublish

InitStore ==
    /\ clock = Clock0
    /\ pending = EmptyDir /\ approved = EmptyDir /\ posted = EmptyDir
    /\ epc = "idle" /\ ecall = "none" /\ earg = NoFile /\ etweet = None
    /\ ef = NoFile
    /\ edraft = NoDraft /\ eret = "none" /\ elist = <<>> /\ eglob = <<>>
    /\ ppc = "idle" /\ parg = NoFile /\ ppath = NoFile /\ pdraft = NoDraft
    /\ pret = "none"
    /\ ops = 0 /\ posts = 0
    /\ nCreate = 0 /\ nReject = 0 /\ left = {}

Init ==
    /\ InitStore
    /\ buckets = NoBuckets /\ cmd = "none" /\ cpc = "idle"
    /\ breaking = <<>> /\ commentary = <<>> /\ geopolitics = <<>>
    /\ cidx = 0 /\ cpath = NoFile /\ cid = NoFile /\ created = <<>>
    /\ autoApproved = {}
    /\ claude = FALSE /\ results = NoResults /\ faults = {}
    /\ NoEnrichment /\ NoDetection /\ NoLibrary

\* the commands of the engine on the draft store
NextStore ==
    \/ Tick
    \/ CmdSave
    \/ list_pending_glob
    \/ list_pending_read
    \/ list_pending_return
    \/ approve_draft_glob
    \/ approve_draft_rename
    \/ mark_posted_glob
    \/ mark_posted_read
    \/ mark_posted_write
    \/ mark_posted_unlink
    \/ reject

\* the draft store with one invocation of the engine at a time
SpecStore == Init /\ [][NextStore]_vars

\* the draft store with a file in pending that is not JSON (a write that
\* was cut short)
InitMalformed ==
    /\ clock = Clock0
    /\ pending = Write(EmptyDir, DraftFile(strftime(Clock0)), Malformed)
    /\ approved = EmptyDir /\ posted = EmptyDir
    /\ epc = "idle" /\ ecall = "none" /\ earg = NoFile /\ etweet = None
    /\ ef = NoFile
    /\ edraft = NoDraft /\ eret = "none" /\ elist = <<>> /\ eglob = <<>>
    /\ ppc = "idle" /\ parg = NoFile /\ ppath = NoFile /\ pdraft = NoDraft
    /\ pret = "none"
    /\ ops = 0 /\ posts = 0
    /\ nCreate = 0 /\ nReject = 0 /\ left = {}
    /\ buckets = NoBuckets /\ cmd = "none" /\ cpc = "idle"
    /\ breaking = <<>> /\ commentary = <<>> /\ geopolitics = <<>>
    /\ cidx = 0 /\ cpath = NoFile /\ cid = NoFile /\ created = <<>>
    /\ autoApproved = {}
    /\ claude = FALSE /\ results = NoResults /\ faults = {}
    /\ NoEnrichment /\ NoDetection /\ NoLibrary

SpecMalformed == InitMalformed /\ [][NextStore]_vars

\* the engine and the posting tool, running independently on the directories
Next ==
    \/ Tick
    \/ CmdSave
    \/ list_pending_glob
    \/ list_pending_read
    \/ list_pending_return
    \/ approve_draft_glob
    \/ approve_draft_rename
    \/ mark_posted_glob
    \/ mark_posted_read
    \/ mark_posted_write
    \/ mark_posted_unlink
    \/ reject
    \/ post_tweet_find
    \/ post_tweet_read
    \/ post_tweet_browser
    \/ post_tweet_write
    \/ post_tweet_unlink

Spec == Init /\ [][Next]_vars

\* the same with the attach command
NextAttach ==
    \/ Tick
    \/ CmdSave
    \/ approve_draft_glob
    \/ approve_draft_rename
    \/ mark_posted_glob
    \/ mark_posted_read
    \/ mark_posted_write
    \/ mark_posted_unlink
    \/ reject
    \/ attach
    \/ post_tweet_find
    \/ post_tweet_read
    \/ post_tweet_browser
    \/ post_tweet_write
    \/ post_tweet_unlink

SpecAttach == Init /\ [][NextAttach]_vars

-----------------------------------------------------------------------------
(* Pattern detection *)

\* str.lower on the tokens of the trigger table; a token is a piece of text
\* that no keyword cuts ("Russia" is the pieces R, us, sia: it holds "us")
Lower(tok) ==
    CASE tok = "Cinema" -> "cinema" [] tok = "Rex" -> "rex" [] tok = "Rasht" -> "rasht"
      [] tok = "Khomeini" -> "khomeini" [] tok = "West" -> "west" [] tok = "US" -> "us"
      [] tok = "Europe" -> "europe" [] tok = "Guadeloupe" -> "guadeloupe"
      [] tok = "Carter" -> "carter" [] tok = "Iraq" -> "iraq"
      [] tok = "Afghanistan" -> "afghanistan" [] tok = "Vietnam" -> "vietnam"
      [] tok = "Kurd" -> "kurd" [] tok = "Azeri" -> "azeri" [] tok = "Baluch" -> "baluch"
      [] tok = "Arab" -> "arab" [] tok = "Yugoslavia" -> "yugoslavia"
      [] tok = "China" -> "china" [] tok = "R" -> "r"
      [] tok = "Turkmenchay" -> "turkmenchay" [] tok = "Silk" -> "silk"
      [] tok = "Road" -> "road" [] tok = "Mossadegh" -> "mossadegh"
      [] tok = "Majles" -> "majles" [] tok = "Zagros" -> "zagros"
      [] tok = "Fire" -> "fire" [] tok = "FIRE" -> "fire"
      [] OTHER -> tok

LowerStr(s) == [i \in 1..Len(s) |-> Lower(s[i])]

PATTERN_TRIGGERS == <<
    [pattern |-> <<"fire_parallel">>,
     triggers |-> << <<"fire">>, <<"burn">>, <<"arson">>, <<"flames">>,
                     <<"Cinema", "Rex">>, <<"Rasht">>, <<"bazaar">>, <<"trapped">> >>],
    [pattern |-> <<"counter_revolution">>,
     triggers |-> << <<"revolution">>, <<"1979">>, <<"hijacked">>, <<"Khomeini">>,
                     <<"stole">>, <<"1978">>, <<"grandchildren">> >>],
    [pattern |-> <<"western_betrayal">>,
     triggers |-> << <<"West">>, <<"US">>, <<"Europe">>, <<"silent">>, <<"Guadeloupe">>,
                     <<"Carter">>, <<"abandoned">>, <<"betrayal">> >>],
    [pattern |-> <<"iraq_contrast">>,
     triggers |-> << <<"Iraq">>, <<"invasion">>, <<"regime", "change">>, <<"troops">>,
                     <<"Afghanistan">>, <<"Vietnam">>, <<"quagmire">> >>],
    [pattern |-> <<"ethnic_unity">>,
     triggers |-> << <<"Kurd">>, <<"Azeri">>, <<"Baluch">>, <<"Arab">>, <<"fragment">>,
                     <<"unity">>, <<"ethnic">>, <<"Yugoslavia">> >>],
    [pattern |-> <<"massacre_escalation">>,
     triggers |-> << <<"killed">>, <<"massacre">>, <<"death", "toll">>, <<"1988">>,
                     <<"executed">>, <<"bodies">>, <<"hospital">> >>],
    [pattern |-> <<"great_power_game">>,
     triggers |-> << <<"China">>, <<"R", "us", "sia">>, <<"Turkmenchay">>, <<"Silk", "Road">>,
                     <<"partner">>, <<"deal">> >>],
    [pattern |-> <<"constitutional_memory">>,
     triggers |-> << <<"1906">>, <<"constitution">>, <<"Mossadegh">>, <<"democratic">>,
                     <<"parliament">>, <<"Majles">> >>],
    [pattern |-> <<"geography_fortress">>,
     triggers |-> << <<"geography">>, <<"mountains">>, <<"invasion">>, <<"fortress">>,
                     <<"Zagros">>, <<"terrain">> >>],
    [pattern |-> <<"diaspora_return">>,
     triggers |-> << <<"diaspora">>, <<"return">>, <<"exile">>, <<"abroad">>,
                     <<"4", "million">>, <<"educated">> >>] >>

\* a match that does not lower the keyword
RECURSIVE MatchedTriggers_CaseSensitive(_, _)
MatchedTriggers_CaseSensitive(triggers, textLower) ==
    IF triggers = <<>> THEN <<>>
    ELSE (IF IsInfix(Head(triggers), textLower)
          THEN <<Head(triggers)>> ELSE <<>>)
         \o MatchedTriggers_CaseSensitive(Tail(triggers), textLower)

\* [t for t in triggers if t.lower() in text_lower]
RECURSIVE MatchedTriggers(_, _)
MatchedTriggers(triggers, textLower) ==
    IF triggers = <<>> THEN <<>>
    ELSE (IF IsInfix(LowerStr(Head(triggers)), textLower)
          THEN <<Head(triggers)>> ELSE <<>>)
         \o MatchedTriggers(Tail(triggers), textLower)

\* the score len(matched) / len(triggers), kept as a fraction
ScoreGeq(a, b) == a.num * b.den >= b.num * a.den

\* a descending sort that puts the later of two equal scores first
RECURSIVE InsertByScore_Unstable(_, _)
InsertByScore_Unstable(s, x) ==
    IF s = <<>> THEN <<x>>
    ELSE IF ~ScoreGeq(x, Head(s)) THEN <<Head(s)>> \o InsertByScore_Unstable(Tail(s), x)
    ELSE <<x>> \o s

\* list.sort(key=score, reverse=True): stable, descending
RECURSIVE InsertByScore(_, _)
InsertByScore(s, x) ==
    IF s = <<>> THEN <<x>>
    ELSE IF ScoreGeq(Head(s), x) THEN <<Head(s)>> \o InsertByScore(Tail(s), x)
    ELSE <<x>> \o s

RECURSIVE SortByScore(_)
SortByScore(s) ==
    IF s = <<>> THEN <<>>
    ELSE InsertByScore(SortByScore(SubSeq(s, 1, Len(s) - 1)), s[Len(s)])

RECURSIVE ScanTriggers(_, _)
ScanTriggers(table, textLower) ==
    IF table = <<>> THEN <<>>
    ELSE LET matched == MatchedTriggers(Head(table).triggers, textLower)
         IN (IF matched # <<>>
             THEN <<[pattern |-> Head(table).pattern, num |-> Len(matched),
                     den |-> Len(Head(table).triggers), matched |-> matched]>>
             ELSE <<>>)
            \o ScanTriggers(Tail(table), textLower)

auto_detect_pattern(text) == SortByScore(ScanTriggers(PATTERN_TRIGGERS, LowerStr(text)))

\* TweetEnricher.detect_pattern
detect_pattern(text) ==
    LET matches == auto_detect_pattern(text)
    IN IF matches # <<>> THEN matches[1].pattern ELSE None

\* pattern or "breaking"
OrElse(pattern, default) == IF pattern = None THEN default ELSE pattern

-----------------------------------------------------------------------------
(* Pattern detection on its own *)

MaxLen == 3           \* the longest text given to the detection

\* the pieces of the texts: keywords in another case, a keyword of several
\* pieces, a keyword of two patterns, a keyword inside a keyword, none
DetectTokens ==
    {"Fire", "Rasht", "unity", "killed", "invasion", "hello", "R", "us", "sia"}

RECURSIVE TextsOfLen(_)
TextsOfLen(n) ==
    IF n = 0 THEN {<<>>}
    ELSE {Append(t, c) : t \in TextsOfLen(n - 1), c \in DetectTokens}

DetectTexts == UNION {TextsOfLen(n) : n \in 0..MaxLen}

InitDetect ==
    /\ InitStore
    /\ buckets = NoBuckets /\ cmd = "none" /\ cpc = "idle"
    /\ breaking = <<>> /\ commentary = <<>> /\ geopolitics = <<>>
    /\ cidx = 0 /\ cpath = NoFile /\ cid = NoFile /\ created = <<>>
    /\ autoApproved = {}
    /\ claude = FALSE /\ results = NoResults /\ faults = {}
    /\ NoEnrichment /\ NoLibrary
    /\ dtext \in DetectTexts /\ dmatches = <<>> /\ dbest = <<"not called">>

\* auto_detect_pattern(text) and TweetEnricher.detect_pattern(text)
detect ==
    /\ dbest = <<"not called">>
    /\ dmatches' = auto_detect_pattern(dtext)
    /\ dbest' = detect_pattern(dtext)
    /\ UNCHANGED <<dtext, clock, storeVars, engVars, postVars, ops, posts, histVars,
                   cycleVars, enrichVars, libVars>>

NextDetect == detect

SpecDetect == InitDetect /\ [][NextDetect]_vars

-----------------------------------------------------------------------------
(* Ingestion: the bucket files and scrape_recent_tweets *)

BreakingMaxAgeSec == 612     \* max_age_hours=0.17
OtherMaxAgeSec == 86400      \* max_age_hours=24
BreakingCap == 5             \* breaking[:5]
OtherCap == 10               \* (commentary + geopolitics)[:10]

NoDate == -1                 \* a date that fromisoformat rejects

bucket_files ==
    [breaking |-> <<"middleeast_24">>,
     commentary |-> <<"__injaneb96", "realneo101">>,
     geopolitics |-> <<"jasonmbrodsky", "ariaramesh">>]

\* the filter of line 485
IsRecent_AtCutoff(t, cutoff) ==
    t.date # NoDate /\ t.date >= cutoff /\ ~t.isRetweet

IsRecent(t, cutoff) ==
    t.date # NoDate /\ t.date > cutoff /\ ~t.isRetweet

\* the tweets of one file that pass the filter, tagged with bucket and handle
RECURSIVE RecentOf(_, _, _, _)
RecentOf(tweets, cutoff, bucket, handle) ==
    IF tweets = <<>> THEN <<>>
    ELSE (IF IsRecent(Head(tweets), cutoff)
          THEN <<[date |-> Head(tweets).date, isRetweet |-> Head(tweets).isRetweet,
                  text |-> Head(tweets).text, bucket |-> bucket, handle |-> handle]>>
          ELSE <<>>)
         \o RecentOf(Tail(tweets), cutoff, bucket, handle)

RECURSIVE RecentOfFiles(_, _, _)
RecentOfFiles(files, cutoff, bucket) ==
    IF files = <<>> THEN <<>>
    ELSE (IF buckets[Head(files)].exists /\ buckets[Head(files)].valid
          THEN RecentOf(buckets[Head(files)].tweets, cutoff, bucket, Head(files))
          ELSE <<>>)
         \o RecentOfFiles(Tail(files), cutoff, bucket)

\* sorted(recent, key=date, reverse=True): stable, descending
RECURSIVE InsertByDate(_, _)
InsertByDate(s, x) ==
    IF s = <<>> THEN <<x>>
    ELSE IF Head(s).date >= x.date THEN <<Head(s)>> \o InsertByDate(Tail(s), x)
    ELSE <<x>> \o s

RECURSIVE SortByDate(_)
SortByDate(s) ==
    IF s = <<>> THEN <<>>
    ELSE InsertByDate(SortByDate(SubSeq(s, 1, Len(s) - 1)), s[Len(s)])

scrape_recent_tweets(bucket, maxAgeSec) ==
    SortByDate(RecentOfFiles(bucket_files[bucket], clock - maxAgeSec, bucket))

-----------------------------------------------------------------------------
(* Ingestion: generate_drafts_from_buckets and the refresh command *)

Min(a, b) == IF a <= b THEN a ELSE b

\* the slices breaking[:5] and (commentary + geopolitics)[:10]
BreakingSlice == SubSeq(breaking, 1, Min(Len(breaking), BreakingCap))
\* a slice without its end: commentary + geopolitics
OtherSlice_Uncapped == commentary \o geopolitics

OtherSlice ==
    SubSeq(commentary \o geopolitics, 1, Min(Len(commentary \o geopolitics), OtherCap))

\* sources=[f"@{handle}", bucket]
SourcesOf(tweet, bucket) == << <<"@", tweet.handle>>, <<bucket>> >>

\* the draft that the loops save for a tweet
DraftOf(tweet, default, bucket) ==
    NewDraft(clock, tweet.text, <<>>, OrElse(detect_pattern(tweet.text), default),
             SourcesOf(tweet, bucket))

\* approve_draft called inside a command: glob, rename of the first path
approve_draft(frag) ==
    IF Glob(pending, frag) = {}
    THEN UNCHANGED <<storeVars, left>>
    ELSE \E f \in Glob(pending, frag) : Rename(f)

CycleFrame == UNCHANGED <<engVars, postVars, ops, posts, buckets, claude, enrichVars, detectVars, libVars>>

\* nothing fails in the step and run_cycle does not return in it
NoFault == UNCHANGED <<results, faults>>

\* the results dict of run_cycle, before generate_drafts_from_buckets returns
FreshResults == [drafts_created |-> <<>>, errors |-> <<>>]

\* translate_to_persian inside try/except: the translation, or "" when the
\* client raises; without a client the text stays ""
Translate(text) ==
    IF claude
    THEN {[ok |-> TRUE, persian |-> <<"fa">> \o text], [ok |-> FALSE, persian |-> <<>>]}
    ELSE {[ok |-> TRUE, persian |-> <<>>]}

\* FaytuksDaemon.run_cycle is called
run_cycle ==
    /\ cmd = "none" /\ cpc = "idle"
    /\ cmd' = "cycle" /\ cpc' = "scrape_breaking"
    /\ results' = FreshResults
    /\ UNCHANGED <<clock, storeVars, histVars, breaking, commentary, geopolitics,
                   cidx, cpath, cid, created, autoApproved, faults>>
    /\ CycleFrame

\* main: the refresh command is called
refresh ==
    /\ cmd = "none" /\ cpc = "idle"
    /\ cmd' = "refresh" /\ cpc' = "scrape_breaking"
    /\ UNCHANGED <<clock, storeVars, histVars, breaking, commentary, geopolitics,
                   cidx, cpath, cid, created, autoApproved>>
    /\ CycleFrame /\ NoFault

scrape_breaking ==
    /\ cpc = "scrape_breaking"
    /\ breaking' = scrape_recent_tweets("breaking", BreakingMaxAgeSec)
    /\ cpc' = "scrape_commentary"
    /\ UNCHANGED <<clock, storeVars, histVars, cmd, commentary, geopolitics,
                   cidx, cpath, cid, created, autoApproved>>
    /\ CycleFrame /\ NoFault

scrape_commentary ==
    /\ cpc = "scrape_commentary"
    /\ commentary' = scrape_recent_tweets("commentary", OtherMaxAgeSec)
    /\ cpc' = "scrape_geopolitics"
    /\ UNCHANGED <<clock, storeVars, histVars, cmd, breaking, geopolitics,
                   cidx, cpath, cid, created, autoApproved>>
    /\ CycleFrame /\ NoFault

scrape_geopolitics ==
    /\ cpc = "scrape_geopolitics"
    /\ geopolitics' = scrape_recent_tweets("geopolitics", OtherMaxAgeSec)
    /\ cpc' = "breaking_loop" /\ cidx' = 1
    /\ UNCHANGED <<clock, storeVars, histVars, cmd, breaking, commentary,
                   cpath, cid, created, autoApproved>>
    /\ CycleFrame /\ NoFault

\* generate_drafts_from_buckets: save_draft of one breaking tweet
cycle_save_breaking ==
    /\ cmd = "cycle" /\ cpc = "breaking_loop" /\ cidx <= Len(BreakingSlice)
    /\ \E tr \in Translate(BreakingSlice[cidx].text) :
         LET draft == [DraftOf(BreakingSlice[cidx], <<"breaking">>, "breaking")
                          EXCEPT !.persian = tr.persian]
         IN /\ save_draft(draft.english, draft.persian, draft.pattern, draft.sources)
            /\ created' = Append(created, <<PendingPath, "breaking", draft>>)
            /\ faults' = IF tr.ok THEN faults
                         ELSE faults \cup {<<"translate", "breaking", cidx>>}
    /\ cpath' = PendingPath
    /\ cpc' = "breaking_approve"
    /\ UNCHANGED <<clock, cmd, breaking, commentary, geopolitics, cidx, cid,
                   autoApproved, results>>
    /\ CycleFrame

\* generate_drafts_from_buckets: approve_draft(Path(path).stem)
cycle_approve_breaking ==
    /\ cmd = "cycle" /\ cpc = "breaking_approve"
    /\ approve_draft(Stem(cpath))
    /\ autoApproved' = IF Glob(pending, Stem(cpath)) # {}
                       THEN autoApproved \cup {cidx} ELSE autoApproved
    /\ cidx' = cidx + 1 /\ cpc' = "breaking_loop"
    /\ UNCHANGED <<clock, nCreate, nReject, cmd, breaking, commentary, geopolitics,
                   cpath, cid, created>>
    /\ CycleFrame /\ NoFault

\* refresh: draft_id = datetime.now().strftime(...)
refresh_draft_id ==
    /\ cmd = "refresh" /\ cpc = "breaking_loop" /\ cidx <= Len(BreakingSlice)
    /\ cid' = strftime(clock)
    /\ cpc' = "breaking_save"
    /\ UNCHANGED <<clock, storeVars, histVars, cmd, breaking, commentary, geopolitics,
                   cidx, cpath, created, autoApproved>>
    /\ CycleFrame /\ NoFault

\* refresh: save_draft of one breaking tweet
refresh_save_breaking ==
    /\ cmd = "refresh" /\ cpc = "breaking_save"
    /\ \E tr \in Translate(BreakingSlice[cidx].text) :
         LET draft == [DraftOf(BreakingSlice[cidx], <<"breaking">>, "breaking")
                          EXCEPT !.persian = tr.persian]
         IN /\ save_draft(draft.english, draft.persian, draft.pattern, draft.sources)
            /\ created' = Append(created, <<PendingPath, "breaking", draft>>)
            /\ faults' = IF tr.ok THEN faults
                         ELSE faults \cup {<<"translate", "breaking", cidx>>}
    /\ cpath' = PendingPath
    /\ cpc' = "breaking_approve"
    /\ UNCHANGED <<clock, cmd, breaking, commentary, geopolitics, cidx, cid,
                   autoApproved, results>>
    /\ CycleFrame

\* refresh: approve_draft(draft_id)
refresh_approve_breaking ==
    /\ cmd = "refresh" /\ cpc = "breaking_approve"
    /\ approve_draft(cid)
    /\ autoApproved' = IF Glob(pending, cid) # {}
                       THEN autoApproved \cup {cidx} ELSE autoApproved
    /\ cidx' = cidx + 1 /\ cpc' = "breaking_loop"
    /\ UNCHANGED <<clock, nCreate, nReject, cmd, breaking, commentary, geopolitics,
                   cpath, cid, created>>
    /\ CycleFrame /\ NoFault

\* the breaking loop is exhausted
breaking_done ==
    /\ cpc = "breaking_loop" /\ cidx > Len(BreakingSlice)
    /\ cpc' = "other_loop" /\ cidx' = 1
    /\ UNCHANGED <<clock, storeVars, histVars, cmd, breaking, commentary, geopolitics,
                   cpath, cid, created, autoApproved>>
    /\ CycleFrame /\ NoFault

\* both commands: save_draft of one commentary or geopolitics tweet
save_other ==
    /\ cpc = "other_loop" /\ cidx <= Len(OtherSlice)
    /\ LET tweet == OtherSlice[cidx]
           draft == DraftOf(tweet, <<"general">>, tweet.bucket)
       IN /\ save_draft(draft.english, draft.persian, draft.pattern, draft.sources)
          /\ created' = Append(created, <<PendingPath, tweet.bucket, draft>>)
    /\ cpath' = PendingPath
    /\ cidx' = cidx + 1
    /\ UNCHANGED <<clock, cmd, cpc, breaking, commentary, geopolitics, cid,
                   autoApproved>>
    /\ CycleFrame /\ NoFault

\* the command returns; run_cycle stores the created paths in its results
other_done ==
    /\ cpc = "other_loop" /\ cidx > Len(OtherSlice)
    /\ cpc' = "done"
    /\ results' = IF cmd = "cycle"
                  THEN [results EXCEPT !.drafts_created =
                                          [k \in DOMAIN created |-> created[k][1]]]
                  ELSE results
    /\ UNCHANGED <<clock, storeVars, histVars, cmd, breaking, commentary, geopolitics,
                   cidx, cpath, cid, created, autoApproved, faults>>
    /\ CycleFrame

\* run_cycle: save_draft raises for one item (open or json.dump fails); the
\* exception leaves generate_drafts_from_buckets and is caught by run_cycle
save_raises ==
    /\ cmd = "cycle"
    /\ \/ cpc = "breaking_loop" /\ cidx <= Len(BreakingSlice)
       \/ cpc = "other_loop" /\ cidx <= Len(OtherSlice)
    /\ faults' = faults \cup {<<"save", cpc, cidx>>}
    /\ results' = [results EXCEPT !.errors = Append(results.errors, <<"OSError">>)]
    /\ cpc' = "done"
    /\ UNCHANGED <<clock, storeVars, histVars, cmd, breaking, commentary, geopolitics,
                   cidx, cpath, cid, created, autoApproved>>
    /\ CycleFrame

-----------------------------------------------------------------------------
(* The bucket files a command may find *)

MaxBreaking == 6      \* the longest breaking file
MaxOther == 6         \* the longest commentary or geopolitics file
MaxDrafts == 2        \* how many drafts are saved before an enrichment

Tweet(d, rt, text) == [date |-> d, isRetweet |-> rt, text |-> text]
File(tweets) == [exists |-> TRUE, valid |-> TRUE, tweets |-> tweets]
Missing == [exists |-> FALSE, valid |-> FALSE, tweets |-> <<>>]

\* a file that exists and cannot be read as JSON
Corrupt == [exists |-> TRUE, valid |-> FALSE, tweets |-> <<>>]

\* tweets around the cutoff of the breaking bucket
BreakingTweets ==
    { Tweet(Clock0 - BreakingMaxAgeSec, FALSE, <<"massacre", "1988">>),
      Tweet(Clock0 - BreakingMaxAgeSec + 1, FALSE, <<"Fire", "in", "Rasht">>),
      Tweet(Clock0 - 5, FALSE, <<"hello">>),
      Tweet(Clock0 - 5, TRUE, <<"Khomeini", "1979">>),
      Tweet(NoDate, FALSE, <<"hello">>) }

\* a file of n recent tweets, oldest first
LongFile(n) ==
    File([i \in 1..n |-> Tweet(Clock0 - 20 + i, FALSE, <<"fire", Digit(i)>>)])

BreakingFiles ==
    {Missing}
    \cup {File(<<>>)}
    \cup {File(<<a>>) : a \in BreakingTweets}
    \cup {File(<<a, b>>) : a \in BreakingTweets, b \in BreakingTweets}
    \cup {LongFile(n) : n \in 3..MaxBreaking}

CommentaryFiles1 ==
    { Missing,
      File(<< Tweet(Clock0 - OtherMaxAgeSec, FALSE, <<"hello">>),
              Tweet(Clock0 - OtherMaxAgeSec + 1, FALSE, <<"Iraq", "invasion">>),
              Tweet(Clock0 - 50, TRUE, <<"unity">>) >>) }

\* a file of n recent tweets of another bucket, oldest first
LongOther(n, word) ==
    File([i \in 1..n |-> Tweet(Clock0 - 60 + i, FALSE, <<word, Digit(i)>>)])

CommentaryFiles2 ==
    { File(<<>>), File(<< Tweet(Clock0 - 30, FALSE, <<"diaspora", "return">>) >>) }

GeopoliticsFiles1 ==
    { Missing,
      File(<< Tweet(NoDate, FALSE, <<"deal">>),
              Tweet(Clock0 - 40, FALSE, <<"China", "deal">>) >>) }

GeopoliticsFiles2 ==
    { File(<< Tweet(Clock0 - 30, FALSE, <<"hello">>) >>) }

BucketsOf(b, c1, c2, g1, g2) ==
    [f \in {"middleeast_24", "__injaneb96", "realneo101", "jasonmbrodsky", "ariaramesh"}
        |-> CASE f = "middleeast_24" -> b
               [] f = "__injaneb96" -> c1
               [] f = "realneo101" -> c2
               [] f = "jasonmbrodsky" -> g1
               [] f = "ariaramesh" -> g2]

\* short files in every combination, and long files in all buckets at once
BucketChoices ==
    { BucketsOf(b, c1, c2, g1, g2) :
        b \in BreakingFiles, c1 \in CommentaryFiles1, c2 \in CommentaryFiles2,
        g1 \in GeopoliticsFiles1, g2 \in GeopoliticsFiles2 }
    \cup
    { BucketsOf(LongFile(MaxBreaking), c1, LongOther(MaxOther, "exile"), g1,
                LongOther(MaxOther, "deal")) :
        c1 \in CommentaryFiles1, g1 \in GeopoliticsFiles1 }

InitCycle ==
    /\ InitStore
    /\ buckets \in BucketChoices
    /\ cmd = "none" /\ cpc = "idle"
    /\ breaking = <<>> /\ commentary = <<>> /\ geopolitics = <<>>
    /\ cidx = 0 /\ cpath = NoFile /\ cid = NoFile /\ created = <<>>
    /\ autoApproved = {}
    /\ claude = FALSE /\ results = NoResults /\ faults = {}
    /\ NoEnrichment /\ NoDetection /\ NoLibrary

NextCycle ==
    \/ Tick
    \/ run_cycle
    \/ refresh
    \/ scrape_breaking
    \/ scrape_commentary
    \/ scrape_geopolitics
    \/ cycle_save_breaking
    \/ cycle_approve_breaking
    \/ refresh_draft_id
    \/ refresh_save_breaking
    \/ refresh_approve_breaking
    \/ breaking_done
    \/ save_other
    \/ other_done

\* one ingestion command on an empty draft store
SpecCycle == InitCycle /\ [][NextCycle]_vars

\* the bucket files of a cycle in which reads, translations and saves can fail
FaultChoices ==
    { BucketsOf(b, c1, c2, Missing, g2) :
        b \in {Corrupt, File(<< Tweet(Clock0 - 5, FALSE, <<"hello">>),
                                Tweet(Clock0 - 6, FALSE, <<"Fire", "in", "Rasht">>) >>)},
        c1 \in {Missing, Corrupt},
        c2 \in CommentaryFiles2, g2 \in GeopoliticsFiles2 }

InitFault ==
    /\ InitStore
    /\ buckets \in FaultChoices
    /\ cmd = "none" /\ cpc = "idle"
    /\ breaking = <<>> /\ commentary = <<>> /\ geopolitics = <<>>
    /\ cidx = 0 /\ cpath = NoFile /\ cid = NoFile /\ created = <<>>
    /\ autoApproved = {}
    /\ claude \in BOOLEAN /\ results = NoResults /\ faults = {}
    /\ NoEnrichment /\ NoDetection /\ NoLibrary

NextFault ==
    \/ Tick
    \/ run_cycle
    \/ scrape_breaking
    \/ scrape_commentary
    \/ scrape_geopolitics
    \/ cycle_save_breaking
    \/ cycle_approve_breaking
    \/ breaking_done
    \/ save_other
    \/ other_done
    \/ save_raises

\* one cycle of the daemon with failing reads, translations and saves
SpecFault == InitFault /\ [][NextFault]_vars

-----------------------------------------------------------------------------
(* The daemon command: cycles in a loop *)

MaxCycles == 2        \* how many cycles the daemon is followed for

\* the values of --interval (type=int)
Intervals == {-1, 0, 1}

\* the bucket files the daemon finds: an unreadable file, recent tweets
DaemonChoices ==
    { BucketsOf(Corrupt, Missing, File(<<>>), Missing,
                File(<< Tweet(Clock0 - 30, FALSE, <<"hello">>) >>)),
      BucketsOf(File(<< Tweet(Clock0 - 5, FALSE, <<"Fire", "in", "Rasht">>) >>),
                Corrupt, File(<<>>), Missing, Missing) }

InitDaemon ==
    /\ InitStore
    /\ buckets \in DaemonChoices
    /\ cmd = "none" /\ cpc = "idle"
    /\ breaking = <<>> /\ commentary = <<>> /\ geopolitics = <<>>
    /\ cidx = 0 /\ cpath = NoFile /\ cid = NoFile /\ created = <<>>
    /\ autoApproved = {}
    /\ claude \in BOOLEAN /\ results = NoResults /\ faults = {}
    /\ NoEnrichment /\ NoDetection /\ NoCorpus /\ NoKB /\ NoPublish
    /\ dpc = "loop" /\ dcycle = 0 /\ dinterval \in Intervals

\* while True: cycle += 1; daemon.run_cycle(claude) is called
daemon_cycle ==
    /\ dpc = "loop" /\ dcycle < MaxCycles
    /\ dcycle' = dcycle + 1
    /\ dpc' = "cycle"
    /\ cmd' = "cycle" /\ cpc' = "scrape_breaking"
    /\ results' = FreshResults
    /\ breaking' = <<>> /\ commentary' = <<>> /\ geopolitics' = <<>>
    /\ cidx' = 0 /\ cpath' = NoFile /\ created' = <<>>
    /\ autoApproved' = {} /\ faults' = {}
    /\ UNCHANGED <<clock, storeVars, histVars, cid, dinterval, corpusVars, kbVars, publishVars>>
    /\ UNCHANGED <<engVars, postVars, ops, posts, buckets, claude, enrichVars, detectVars>>

\* run_cycle has returned: the results and the queue status are printed; a
\* glob that raises is caught by the except of the loop
daemon_status ==
    /\ dpc = "cycle" /\ cpc = "done"
    /\ dpc' = "sleep"
    /\ cmd' = "none" /\ cpc' = "idle"
    /\ UNCHANGED <<clock, storeVars, histVars, breaking, commentary, geopolitics,
                   cidx, cpath, cid, created, autoApproved, results, faults,
                   dcycle, dinterval, corpusVars, kbVars, publishVars>>
    /\ UNCHANGED <<engVars, postVars, ops, posts, buckets, claude, enrichVars, detectVars>>

\* time.sleep(interval), outside the try: a negative interval raises
\* ValueError, which leaves the loop and the command
daemon_sleep ==
    /\ dpc = "sleep"
    /\ IF dinterval < 0
       THEN dpc' = "dead" /\ clock' = clock
       ELSE dpc' = "loop" /\ clock' = clock + dinterval
    /\ UNCHANGED <<storeVars, histVars, cycleVars, dcycle, dinterval, corpusVars, kbVars, publishVars>>
    /\ UNCHANGED <<engVars, postVars, ops, posts, enrichVars, detectVars>>

\* the steps of the daemon process
DaemonRuns ==
    \/ daemon_cycle
    \/ scrape_breaking
    \/ scrape_commentary
    \/ scrape_geopolitics
    \/ save_raises
    \/ cycle_save_breaking
    \/ cycle_approve_breaking
    \/ breaking_done
    \/ save_other
    \/ other_done
    \/ daemon_status
    \/ daemon_sleep

NextDaemon ==
    \/ Tick
    \/ DaemonRuns

\* the daemon command; the process is never stopped from outside and every
\* call it makes returns or raises
SpecDaemon == InitDaemon /\ [][NextDaemon]_vars /\ WF_vars(DaemonRuns)

-----------------------------------------------------------------------------
(* Enrichment: TweetEnricher and the enrich command *)

\* the facts and the eras of the knowledge base the engine is started with
KBFacts ==
    << <<"cinema", "rex", "fire", "of", "1978">>,
       <<"executions", "of", "1988">>,
       <<"bloody", "november", "of", "2019">>,
       <<"death", "toll", "of", "2019">>,
       <<"massacre", "of", "2019">>,
       <<"the", "1979", "revolution">> >>

KBEras ==
    [k \in {<<"1978_revolution">>, <<"uprisings_2019_2022">>} |->
        IF k = <<"1978_revolution">> THEN <<"Revolution", "1978">>
        ELSE <<"Uprisings", "2019", "2022">>]

\* pattern_facts of get_historical_context
pattern_facts ==
    << [pattern |-> <<"fire_parallel">>,
        keywords |-> << <<"Cinema", "Rex">>, <<"Rasht">>, <<"arson">> >>],
       [pattern |-> <<"massacre_escalation">>,
        keywords |-> << <<"1988">>, <<"2019">>, <<"Bloody", "November">>,
                        <<"death", "toll">> >>],
       [pattern |-> <<"counter_revolution">>,
        keywords |-> << <<"1979">>, <<"Khomeini">>, <<"hijacked">> >>],
       [pattern |-> <<"western_betrayal">>,
        keywords |-> << <<"Guadeloupe">>, <<"Carter">>, <<"1979">> >>],
       [pattern |-> <<"constitutional_memory">>,
        keywords |-> << <<"1906">>, <<"Mossadegh">>, <<"constitutional">> >>],
       [pattern |-> <<"ethnic_unity">>,
        keywords |-> << <<"Khuzestan">>, <<"Azerbaijan">>, <<"unity">> >>],
       [pattern |-> <<"great_power_game">>,
        keywords |-> << <<"Turkmenchay">>, <<"China">>, <<"R", "us", "sia">> >>],
       [pattern |-> <<"iraq_contrast">>,
        keywords |-> << <<"Iraq">>, <<"2003">>, <<"Afghanistan">> >>],
       [pattern |-> <<"diaspora_return">>,
        keywords |-> << <<"diaspora">>, <<"exile">>, <<"4", "million">> >>] >>

\* pattern_facts.get(pattern, [])
KeywordsOf(pattern) ==
    IF \E i \in DOMAIN pattern_facts : pattern_facts[i].pattern = pattern
    THEN LET i == CHOOSE i \in DOMAIN pattern_facts : pattern_facts[i].pattern = pattern
         IN pattern_facts[i].keywords
    ELSE <<>>

era_mapping ==
    << [pattern |-> <<"fire_parallel">>, era |-> <<"1978_revolution">>],
       [pattern |-> <<"counter_revolution">>, era |-> <<"islamic_republic_1979">>],
       [pattern |-> <<"constitutional_memory">>, era |-> <<"constitutional_1906">>],
       [pattern |-> <<"massacre_escalation">>, era |-> <<"uprisings_2019_2022">>] >>

\* eras.get(era_mapping[pattern]) when the pattern is in era_mapping
EraOf(pattern) ==
    IF \E i \in DOMAIN era_mapping : era_mapping[i].pattern = pattern
    THEN LET i == CHOOSE i \in DOMAIN era_mapping : era_mapping[i].pattern = pattern
         IN IF era_mapping[i].era \in DOMAIN KBEras
            THEN KBEras[era_mapping[i].era] ELSE None
    ELSE None

\* the facts whose text holds one of the keywords
RECURSIVE RelevantFacts(_, _)
RelevantFacts(facts, keywords) ==
    IF facts = <<>> THEN <<>>
    ELSE (IF \E i \in DOMAIN keywords : IsInfix(LowerStr(keywords[i]), LowerStr(Head(facts)))
          THEN <<Head(facts)>> ELSE <<>>)
         \o RelevantFacts(Tail(facts), keywords)

\* TweetEnricher.get_historical_context
get_historical_context(pattern) ==
    LET relevant == RelevantFacts(KBFacts, KeywordsOf(pattern))
    IN [facts |-> SubSeq(relevant, 1, Min(Len(relevant), 3)),
        era |-> EraOf(pattern),
        pattern |-> pattern]

\* TweetEnricher.generate_enrichment_prompt
generate_enrichment_prompt(text, context) == <<"prompt">> \o text \o context.pattern

\* {**draft, ...}: the draft with the given keys added or replaced
Extend(draft, extra) ==
    [k \in DOMAIN draft \cup DOMAIN extra |->
        IF k \in DOMAIN extra THEN extra[k] ELSE draft[k]]

\* claude_client.generate: a response, or an exception
Responses == {<<"TWEET">>}

\* enrich_draft: the pattern used when no pattern is detected,
\* draft.get('pattern', 'massacre_escalation')
DraftPattern(draft) ==
    IF "pattern" \in DOMAIN draft THEN draft.pattern ELSE <<"massacre_escalation">>

\* enrich_draft: the dict built before the client is called
Enriched(draft) ==
    LET pattern == OrElse(detect_pattern(draft.english), DraftPattern(draft))
        context == get_historical_context(pattern)
    IN Extend(draft, [detected_pattern |-> pattern,
                      historical_context |->
                          [facts_count |-> Len(context.facts), era |-> context.era]])

\* what enrich_draft was called with, and what it computed
EnrichFrame(draft) ==
    /\ xarg' = draft.id /\ xpath' = NoFile
    /\ xctx' = get_historical_context(
                  OrElse(detect_pattern(draft.english), DraftPattern(draft)))

\* TweetEnricher.enrich_draft called on a pending draft: the dict it returns,
\* or the exception of the client, which it does not catch
enrich_draft ==
    /\ xpc = "idle" /\ ops < MaxOps
    /\ ops' = ops + 1
    /\ \E f \in DOMAIN pending :
         LET draft == pending[f]
             prompt == generate_enrichment_prompt(draft.english, xctx')
         IN /\ EnrichFrame(draft)
            /\ \/ /\ ~claude
                  /\ xdraft' = Enriched(draft) /\ xresp' = None
                  /\ xret' = "returned" /\ faults' = faults
               \/ /\ claude
                  /\ \E r \in Responses :
                       /\ xdraft' = Extend(Enriched(draft),
                                           [supplemental_tweet |-> r,
                                            enrichment_prompt |-> prompt])
                       /\ xresp' = r
                  /\ xret' = "returned" /\ faults' = faults
               \/ /\ claude
                  /\ xdraft' = draft /\ xresp' = None
                  /\ xret' = "raised"
                  /\ faults' = faults \cup {<<"generate", "enrich_draft", f>>}
    /\ xpc' = "idle"
    /\ UNCHANGED <<clock, storeVars, engVars, postVars, posts, histVars>>
    /\ UNCHANGED <<buckets, cmd, cpc, breaking, commentary, geopolitics, cidx, cpath,
                   cid, created, autoApproved, claude, results>>
    /\ UNCHANGED <<detectVars, libVars>>

\* main, enrich: the draft is looked up in pending, then in approved (the
\* break leaves the inner loop only, so a match in approved is the one kept),
\* and the pattern and the context are computed and printed
enrich_find ==
    /\ xpc = "idle" /\ ops < MaxOps
    /\ ops' = ops + 1
    /\ \E frag \in Frags :
         /\ xarg' = frag
         /\ \E fp \in FirstOf(Glob(pending, frag)), fa \in FirstOf(Glob(approved, frag)) :
              IF fp = NoFile /\ fa = NoFile
              THEN /\ xpath' = NoFile /\ xdraft' = NoDraft /\ xctx' = NoContext
                   /\ xpc' = "idle" /\ xret' = "not found"
              ELSE /\ xpath' = IF fa # NoFile THEN <<"approved", fa>> ELSE <<"pending", fp>>
                   /\ xdraft' = IF fa # NoFile THEN approved[fa] ELSE pending[fp]
                   /\ xctx' = get_historical_context(
                                 OrElse(detect_pattern(xdraft'.english),
                                        <<"massacre_escalation">>))
                   /\ xpc' = IF claude THEN "generate" ELSE "idle"
                   /\ xret' = IF claude THEN "running" ELSE "shown"
    /\ xresp' = None
    /\ UNCHANGED <<clock, storeVars, engVars, postVars, posts, histVars, cycleVars>>
    /\ UNCHANGED <<detectVars, libVars>>

\* main, enrich: claude.generate(prompt) returns, or raises out of the command
enrich_generate ==
    /\ xpc = "generate"
    /\ \/ /\ \E r \in Responses : xresp' = r
          /\ xpc' = "write" /\ xret' = xret /\ faults' = faults
       \/ /\ xresp' = None /\ xpc' = "idle" /\ xret' = "raised"
          /\ faults' = faults \cup {<<"generate", "enrich", xpath>>}
    /\ UNCHANGED <<xarg, xpath, xdraft, xctx>>
    /\ UNCHANGED <<clock, storeVars, engVars, postVars, ops, posts, histVars>>
    /\ UNCHANGED <<buckets, cmd, cpc, breaking, commentary, geopolitics, cidx, cpath,
                   cid, created, autoApproved, claude, results>>
    /\ UNCHANGED <<detectVars, libVars>>

\* the record the enrich command writes back
EnrichedRecord(draft, response, t) ==
    Extend(draft, [supplemental_tweet |-> response, enriched_at |-> isoformat(t)])

\* main, enrich: open(draft_path, 'w') + json.dump
enrich_write ==
    /\ xpc = "write"
    /\ LET rec == EnrichedRecord(xdraft, xresp, clock)
       IN IF xpath[1] = "approved"
          THEN approved' = Write(approved, xpath[2], rec) /\ UNCHANGED <<pending, posted>>
          ELSE pending' = Write(pending, xpath[2], rec) /\ UNCHANGED <<approved, posted>>
    /\ xpc' = "idle" /\ xret' = "saved"
    /\ UNCHANGED <<xarg, xpath, xdraft, xctx, xresp>>
    /\ UNCHANGED <<clock, engVars, postVars, ops, posts, histVars, cycleVars>>
    /\ UNCHANGED <<detectVars, libVars>>

InitEnrich ==
    /\ InitStore
    /\ buckets = NoBuckets /\ cmd = "none" /\ cpc = "idle"
    /\ breaking = <<>> /\ commentary = <<>> /\ geopolitics = <<>>
    /\ cidx = 0 /\ cpath = NoFile /\ cid = NoFile /\ created = <<>>
    /\ autoApproved = {}
    /\ claude \in BOOLEAN /\ results = NoResults /\ faults = {}
    /\ NoEnrichment /\ NoDetection /\ NoLibrary

\* the texts of the drafts that are enriched
EnrichTexts == {<<"hello">>, <<"Fire", "in", "Rasht">>}

\* a draft arrives in pending: saved by hand, or by an ingestion command
\* with the pattern that command stored
save_for_enrich ==
    /\ epc = "idle" /\ ops < MaxOps /\ nCreate < MaxDrafts
    /\ \E e \in EnrichTexts, default \in {<<"unknown">>, <<"general">>} :
         save_draft(e, <<>>,
                    IF default = <<"unknown">> THEN default
                    ELSE OrElse(detect_pattern(e), default), <<>>)
    /\ ops' = ops + 1
    /\ Call("save_draft", NoFile, None)
    /\ EngIdle /\ eret' = "path" /\ elist' = <<>>
    /\ UNCHANGED <<clock, postVars, posts, cycleVars, enrichVars, detectVars, libVars>>

NextEnrich ==
    \/ Tick
    \/ save_for_enrich
    \/ approve_draft_glob
    \/ approve_draft_rename
    \/ enrich_draft
    \/ enrich_find
    \/ enrich_generate
    \/ enrich_write

\* the enrich command and enrich_draft on a draft store
SpecEnrich == InitEnrich /\ [][NextEnrich]_vars

-----------------------------------------------------------------------------
(* JSON documents.  A value, in the file and in memory, is a tagged node:  *)
(* a string of pieces, a number, a list of values, or an object as the     *)
(* list of its <<key, value>> members.  The text of a file may repeat a    *)
(* key and holds escapes; a dict in memory has each key once.              *)

Str(s) == [t |-> "str", v |-> s]
Num(n) == [t |-> "num", v |-> n]
List(s) == [t |-> "list", v |-> s]
Dict(members) == [t |-> "obj", v |-> members]

\* the file was cut short while it was written
Partial == [t |-> "partial", v |-> <<>>]

Keys(d) == {d.v[i][1] : i \in 1..Len(d.v)}
Has(d, key) == key \in Keys(d)

\* d[key]
Item(d, key) == d.v[CHOOSE i \in 1..Len(d.v) : d.v[i][1] = key][2]

\* d.get(key, default)
Get(d, key, default) == IF Has(d, key) THEN Item(d, key) ELSE default

\* d[key] = val: a new key goes last, a known key keeps its place
SetItem(d, key, val) ==
    IF Has(d, key)
    THEN Dict([i \in 1..Len(d.v) |-> IF d.v[i][1] = key THEN <<key, val>> ELSE d.v[i]])
    ELSE Dict(Append(d.v, <<key, val>>))

\* the escape of a lone surrogate, as JSON.stringify writes one, and the
\* code point it stands for
SurrogateEscape == "\\ud83d"
Surrogate == "<U+D83D>"
\* the escape of a Persian letter and the letter
AlefEscape == "\\u0627"
Alef == "<U+0627>"

\* what the decoder makes of a piece of a string of the text
Unescape(piece) ==
    CASE piece = SurrogateEscape -> Surrogate
      [] piece = AlefEscape -> Alef
      [] OTHER -> piece

\* json.load keeps the last value of a repeated key, at the place of the first
RECURSIVE DictOfMembers(_)
DictOfMembers(members) ==
    IF members = <<>> THEN Dict(<<>>)
    ELSE LET n == Len(members)
         IN SetItem(DictOfMembers(SubSeq(members, 1, n - 1)),
                    members[n][1], members[n][2])

\* json.load of a text that is a whole document
RECURSIVE Decoded(_)
Decoded(node) ==
    CASE node.t = "str" -> Str([i \in 1..Len(node.v) |-> Unescape(node.v[i])])
      [] node.t = "list" -> List([i \in 1..Len(node.v) |-> Decoded(node.v[i])])
      [] node.t = "obj" ->
            DictOfMembers([i \in 1..Len(node.v) |->
                              <<Unescape(node.v[i][1]), Decoded(node.v[i][2])>>])
      [] OTHER -> node

\* the value holds a character that UTF-8 cannot encode
RECURSIVE Unencodable(_)
Unencodable(node) ==
    CASE node.t = "str" -> \E i \in 1..Len(node.v) : node.v[i] = Surrogate
      [] node.t = "list" -> \E i \in 1..Len(node.v) : Unencodable(node.v[i])
      [] node.t = "obj" ->
            \E i \in 1..Len(node.v) :
               node.v[i][1] = Surrogate \/ Unencodable(node.v[i][2])
      [] OTHER -> FALSE

\* json.dump(value, f, indent=2, ensure_ascii=False) into a file opened
\* with encoding utf-8: every character is written as it is; the write of a
\* string that UTF-8 cannot encode raises, and the file keeps the text
\* written before it
Encoded(value) == IF Unencodable(value) THEN Partial ELSE value

-----------------------------------------------------------------------------
(* The generation history (CorpusManager) *)

RecentCap == 50

EmptyHistory ==
    Dict(<< <<"recentDrafts", List(<<>>)>>,
            <<"publishedTweets", List(<<>>)>>,
            <<"metadata", Dict(<< <<"lastUpdated", Str(<<>>)>>,
                                  <<"version", Str(<<"1.0">>)>> >>)>> >>)

\* s[-n:]
LastN(s, n) == IF Len(s) > n THEN SubSeq(s, Len(s) - n + 1, Len(s)) ELSE s

\* how many calls are made on one CorpusManager
MaxCalls == 3

\* the arguments of the calls
Themes == {<<"fire">>, <<"unity">>}
PublishedArgs ==
    { << <<"Fire", "in", "Rasht">>, <<"fire_parallel">>, 5 >>,
      << <<"hello">>, <<"unity_call">>, 2 >> }
Queries == {None, <<>>, <<"fire">>}
Patterns == {None, <<>>, <<"fire_parallel">>}
MinEngagements == {0, 3}
Limits == {10, 1}

\* what the methods leave alone
CorpusFrame == UNCHANGED <<draftVars, hforeign, daemonVars, kbVars, publishVars>>

\* CorpusManager(history_file): _load_history
load_history ==
    /\ history = NotLoaded
    /\ hcall' = "_load_history"
    /\ IF hfile = Absent
       THEN /\ history' = EmptyHistory
            /\ hret' = <<"ok">>
            /\ hadded' = <<>> /\ hpub' = <<>>
       ELSE IF hfile = Partial
       THEN /\ hret' = <<"raise", "JSONDecodeError">>
            /\ UNCHANGED <<history, hadded, hpub>>
       ELSE /\ history' = Decoded(hfile)
            /\ hret' = <<"ok">>
            /\ hadded' = Get(Decoded(hfile), "recentDrafts", List(<<>>)).v
            /\ hpub' = Get(Decoded(hfile), "publishedTweets", List(<<>>)).v
    /\ UNCHANGED <<clock, hfile, hops>>
    /\ CorpusFrame

\* save_history on the dict h: <<the dict afterwards, the file afterwards,
\* what was raised>>
Saved(h, file, t) ==
    IF ~Has(h, "metadata")
    THEN <<h, file, <<"raise", "KeyError">> >>
    ELSE LET h2 == SetItem(h, "metadata",
                       SetItem(Item(h, "metadata"), "lastUpdated", Str(isoformat(t))))
         IN IF Unencodable(h2)
            THEN <<h2, Encoded(h2), <<"raise", "UnicodeEncodeError">> >>
            ELSE <<h2, Encoded(h2), <<"ok">> >>

save_history ==
    /\ history # NotLoaded /\ hops < MaxCalls
    /\ hops' = hops + 1
    /\ hcall' = "save_history"
    /\ LET r == Saved(history, hfile, clock)
       IN history' = r[1] /\ hfile' = r[2] /\ hret' = r[3]
    /\ UNCHANGED <<clock, hadded, hpub>>
    /\ CorpusFrame

\* the entry add_draft builds
DraftEntry(t, theme, narrative_id, fact_ids) ==
    Dict(<< <<"id", Str(<<"draft_">> \o strftime(t))>>,
            <<"theme", Str(theme)>>,
            <<"narrativeId", Str(narrative_id)>>,
            <<"generatedAt", Str(isoformat(t))>>,
            <<"factIds", List(fact_ids)>> >>)

\* setdefault(key, []).append(entry)
Appended(h, key, entry) ==
    SetItem(h, key, List(Append(Get(h, key, List(<<>>)).v, entry)))

\* the cut of add_draft
Capped_Oldest(drafts) == IF Len(drafts) > RecentCap THEN SubSeq(drafts, 1, RecentCap) ELSE drafts
Capped(drafts) == IF Len(drafts) > RecentCap THEN LastN(drafts, RecentCap) ELSE drafts

add_draft ==
    /\ history # NotLoaded /\ hops < MaxCalls
    /\ hops' = hops + 1
    /\ hcall' = "add_draft"
    /\ \E theme \in Themes :
         LET entry == DraftEntry(clock, theme, <<"n1">>, << Str(<<"f1">>) >>)
             h1 == Appended(history, "recentDrafts", entry)
             h2 == SetItem(h1, "recentDrafts", List(Capped(Item(h1, "recentDrafts").v)))
             r == Saved(h2, hfile, clock)
         IN /\ history' = r[1] /\ hfile' = r[2]
            /\ hret' = IF r[3] = <<"ok">> THEN <<"ok", entry>> ELSE r[3]
            /\ hadded' = Append(hadded, entry)
    /\ UNCHANGED <<clock, hpub>>
    /\ CorpusFrame

\* the entry add_published builds
PublishedEntry(t, tweet, pattern, rate) ==
    Dict(<< <<"id", Str(<<"pub_">> \o strftime(t))>>,
            <<"tweet", Str(tweet)>>,
            <<"publishedAt", Str(isoformat(t))>>,
            <<"pattern", Str(pattern)>>,
            <<"performance", Dict(<< <<"engagement_rate", Num(rate)>> >>)>>,
            <<"tags", List(<<>>)>>,
            <<"why_it_worked", Str(<<"hook">>)>> >>)

add_published ==
    /\ history # NotLoaded /\ hops < MaxCalls
    /\ hops' = hops + 1
    /\ hcall' = "add_published"
    /\ \E a \in PublishedArgs :
         LET entry == PublishedEntry(clock, a[1], a[2], a[3])
             h1 == Appended(history, "publishedTweets", entry)
             r == Saved(h1, hfile, clock)
         IN /\ history' = r[1] /\ hfile' = r[2]
            /\ hret' = IF r[3] = <<"ok">> THEN <<"ok", entry>> ELSE r[3]
            /\ hpub' = Append(hpub, entry)
    /\ UNCHANGED <<clock, hadded>>
    /\ CorpusFrame

\* "if x:" for an argument that is None or a string
Truthy(x) == x # None /\ x # <<>>

\* e.get("performance", {}).get("engagement_rate", 0)
Rate(e) == Get(Get(e, "performance", Dict(<<>>)), "engagement_rate", Num(0)).v

\* the three filters of get_published, each a new list
ByQuery(list, query) ==
    SelectSeq(list, LAMBDA e : IsInfix(LowerStr(query), LowerStr(Get(e, "tweet", Str(<<>>)).v)))
ByPattern(list, pattern) ==
    SelectSeq(list, LAMBDA e : Get(e, "pattern", Str(None)) = Str(pattern))
ByEngagement(list, min_engagement) ==
    SelectSeq(list, LAMBDA e : Rate(e) >= min_engagement)

\* the list get_published returns
Published(h, query, pattern, min_engagement) ==
    LET r0 == Get(h, "publishedTweets", List(<<>>)).v
        r1 == IF Truthy(query) THEN ByQuery(r0, query) ELSE r0
        r2 == IF Truthy(pattern) THEN ByPattern(r1, pattern) ELSE r1
    IN IF min_engagement > 0 THEN ByEngagement(r2, min_engagement) ELSE r2

\* no filter ran: the list returned is the list of the history itself
SameList(h, query, pattern, min_engagement) ==
    /\ Has(h, "publishedTweets")
    /\ ~Truthy(query) /\ ~Truthy(pattern) /\ ~(min_engagement > 0)

get_published ==
    /\ history # NotLoaded /\ hops < MaxCalls
    /\ hops' = hops + 1
    /\ hcall' = "get_published"
    /\ \E q \in Queries, p \in Patterns, m \in MinEngagements :
         hret' = <<"ok", List(Published(history, q, p, m))>>
    /\ UNCHANGED <<clock, hfile, history, hadded, hpub>>
    /\ CorpusFrame

\* list.sort(key=engagement_rate, reverse=True): stable, highest rate first
RECURSIVE InsertByRate(_, _)
InsertByRate(s, x) ==
    IF s = <<>> THEN <<x>>
    ELSE IF Rate(s[Len(s)]) >= Rate(x) THEN Append(s, x)
    ELSE Append(InsertByRate(SubSeq(s, 1, Len(s) - 1), x), s[Len(s)])

RECURSIVE SortByRate(_)
SortByRate(s) ==
    IF s = <<>> THEN <<>>
    ELSE InsertByRate(SortByRate(SubSeq(s, 1, Len(s) - 1)), s[Len(s)])

get_best_template ==
    /\ history # NotLoaded /\ hops < MaxCalls
    /\ hops' = hops + 1
    /\ hcall' = "get_best_template"
    /\ \E p \in Patterns \ {None} :
         LET matches == Published(history, None, p, 0)
         IN IF matches = <<>>
            THEN hret' = <<"ok", None>> /\ history' = history
            ELSE /\ hret' = <<"ok", SortByRate(matches)[1]>>
                 /\ history' = IF SameList(history, None, p, 0)
                               THEN SetItem(history, "publishedTweets",
                                            List(SortByRate(matches)))
                               ELSE history
    /\ UNCHANGED <<clock, hfile, hadded, hpub>>
    /\ CorpusFrame

get_recent_drafts ==
    /\ history # NotLoaded /\ hops < MaxCalls
    /\ hops' = hops + 1
    /\ hcall' = "get_recent_drafts"
    /\ \E limit \in Limits :
         hret' = <<"ok", List(LastN(Get(history, "recentDrafts", List(<<>>)).v, limit))>>
    /\ UNCHANGED <<clock, hfile, history, hadded, hpub>>
    /\ CorpusFrame

\* the documents found on disk: written by this system or by the counterpart
OldDraft(i) == DraftEntry(Clock0 - 100 + i, <<"old">>, <<"n0">>, <<>>)
OldDrafts(n) == [i \in 1..n |-> OldDraft(i)]
OldPublished ==
    << PublishedEntry(Clock0 - 20, <<"hello">>, <<"unity_call">>, 2),
       PublishedEntry(Clock0 - 10, <<"Fire", "in", "Rasht">>, <<"fire_parallel">>, 5) >>

Document(drafts, published) ==
    Dict(<< <<"recentDrafts", List(drafts)>>,
            <<"publishedTweets", List(published)>>,
            <<"metadata", Dict(<< <<"lastUpdated", Str(isoformat(Clock0 - 10))>>,
                                  <<"version", Str(<<"1.0">>)>> >>)>> >>)

\* a record and a field this system does not populate, an escaped letter
ForeignPublished ==
    Dict(<< <<"id", Str(<<"pub_">> \o strftime(Clock0 - 30))>>,
            <<"tweet", Str(<<AlefEscape, "hello">>)>>,
            <<"likes", Num(7)>> >>)
ForeignDocument ==
    SetItem(Document(<<SetItem(OldDraft(1), "model", Str(<<"ts">>))>>,
                     <<ForeignPublished>> \o OldPublished),
            "schema", Num(2))

\* a text cut inside an emoji by the counterpart
SurrogateDocument ==
    Document(<<>>, <<SetItem(OldPublished[1], "tweet", Str(<<"cut", SurrogateEscape>>))>>)

\* documents without the lists, without the metadata block
NoListsDocument == Dict(<< <<"metadata", Dict(<< <<"lastUpdated", Str(<<>>)>> >>)>> >>)
NoMetadataDocument ==
    Dict(<< <<"recentDrafts", List(<<>>)>>, <<"publishedTweets", List(OldPublished)>> >>)

HistoryDocuments ==
    { Absent, EmptyHistory, Document(OldDrafts(1), OldPublished),
      Document(OldDrafts(RecentCap - 1), OldPublished),
      Document(OldDrafts(RecentCap), <<>>),
      ForeignDocument, SurrogateDocument, NoListsDocument, NoMetadataDocument }

InitHistory ==
    /\ InitStore
    /\ buckets = NoBuckets /\ cmd = "none" /\ cpc = "idle"
    /\ breaking = <<>> /\ commentary = <<>> /\ geopolitics = <<>>
    /\ cidx = 0 /\ cpath = NoFile /\ cid = NoFile /\ created = <<>>
    /\ autoApproved = {}
    /\ claude = FALSE /\ results = NoResults /\ faults = {}
    /\ NoEnrichment /\ NoDetection
    /\ hfile \in HistoryDocuments
    /\ history = NotLoaded /\ hcall = "none" /\ hret = None
    /\ hadded = <<>> /\ hpub = <<>> /\ hforeign = {} /\ hops = 0
    /\ NoDaemon /\ NoKB /\ NoPublish

NextHistory ==
    \/ Tick
    \/ load_history
    \/ save_history
    \/ add_draft
    \/ add_published
    \/ get_published
    \/ get_best_template
    \/ get_recent_drafts

\* one process with a CorpusManager on the shared document
SpecHistory == InitHistory /\ [][NextHistory]_vars

NextAppend ==
    \/ Tick
    \/ load_history
    \/ add_draft
    \/ add_published

\* the same with the two appending methods only
SpecAppend == InitHistory /\ [][NextAppend]_vars

MaxForeign == 1       \* how many entries the counterpart appends

\* the entries the counterpart appends: a draft summary, a published entry
ForeignEntries ==
    { <<"recentDrafts",
        SetItem(DraftEntry(Clock0 + 50, <<"counterpart">>, <<"n9">>, <<>>),
                "model", Str(<<"ts">>))>>,
      <<"publishedTweets",
        SetItem(PublishedEntry(Clock0 + 50, <<"from", "counterpart">>, <<"unity_call">>, 4),
                "likes", Num(7))>> }

\* the counterpart system, a process of its own, reads the shared document,
\* appends an entry and writes the document
counterpart_append ==
    /\ history # NotLoaded
    /\ hfile # Partial
    /\ Cardinality(hforeign) < MaxForeign
    /\ \E a \in ForeignEntries :
         LET doc == IF hfile = Absent THEN EmptyHistory ELSE hfile
             list == Append(Get(doc, a[1], List(<<>>)).v, a[2])
         IN /\ hfile' = SetItem(doc, a[1],
                                List(IF a[1] = "recentDrafts" THEN LastN(list, RecentCap)
                                     ELSE list))
            /\ hforeign' = hforeign \cup {a}
    /\ UNCHANGED <<clock, history, hcall, hret, hadded, hpub, hops>>
    /\ UNCHANGED <<draftVars, daemonVars, kbVars, publishVars>>

NextShared ==
    \/ Tick
    \/ load_history
    \/ add_draft
    \/ add_published
    \/ counterpart_append

\* the shared document under this system and the counterpart
SpecShared == InitHistory /\ [][NextShared]_vars

-----------------------------------------------------------------------------
(* The knowledge base (KnowledgeBase) *)

\* the registry, in the order of the dict
KNOWLEDGE_FILES ==
    <<"history", "facts", "geography", "geopolitics", "great_powers",
      "iran_not_iraq", "narratives", "actors", "quotes", "calendar", "hashtags",
      "sources", "threads", "multiplatform">>

Registry == {KNOWLEDGE_FILES[i] : i \in 1..Len(KNOWLEDGE_FILES)}

\* the documents of the knowledge directory
Record2(k1, v1, k2, v2) == Dict(<< <<k1, Str(v1)>>, <<k2, Str(v2)>> >>)
Record3(k1, v1, k2, v2, k3, v3) ==
    Dict(<< <<k1, Str(v1)>>, <<k2, Str(v2)>>, <<k3, Str(v3)>> >>)

FactsDocument ==
    Dict(<< <<"facts", List(<<
        Record2("statement", <<"Cinema", "Rex", "Fire">>, "category", <<"history">>),
        Record2("statement", <<"Carter", "visit">>, "category", <<"west">>),
        Dict(<< <<"category", Str(<<"west">>)>> >>) >>)>> >>)

NarrativesDocument ==
    Dict(<< <<"narratives", List(<<
        Record3("title", <<"unity">>, "description", <<"one", "nation">>,
                "status", <<"active">>),
        Record3("title", <<"exile">>, "description", <<"after", "the", "Fire">>,
                "status", <<"dormant">>) >>)>> >>)

ActorsDocument ==
    Dict(<< <<"actors", List(<<
        Record3("name", <<"Carter">>, "role", <<"president">>, "type", <<"foreign">>),
        Record3("name", <<"Fire", "brigade">>, "role", <<"rescue">>, "type", <<"local">>) >>)>> >>)

\* dates as pieces: two digits, a dash, two digits, and what may follow
Event(date, name) == Dict(<< <<"date", Str(date)>>, <<"event", Str(name)>> >>)

CalendarDocument ==
    Dict(<< <<"anniversary_calendar", Dict(<<
        <<"january", List(<<
            Event(<<"0", "1", "-", "1", "6">>, <<"departure">>),
            Event(<<"0", "1", "-", "0", "1">>, <<"new", "year">>),
            Event(<<"0", "1", "-", "0", "1", "-", "1", "9", "7", "9">>, <<"visit">>),
            Event(<<"0", "2", "-", "0", "1">>, <<"misfiled">>),
            Dict(<< <<"event", Str(<<"undated">>)>> >>) >>)>>,
        <<"february", List(<<
            Event(<<"0", "2", "-", "0", "1">>, <<"return">>),
            Event(<<"0", "2", "-", "1", "1">>, <<"revolution">>) >>)>>,
        <<"december", List(<<
            Event(<<"1", "2", "-", "0", "1">>, <<"winter">>) >>)>> >>)>> >>)

OtherDocument == Dict(<< <<"version", Num(1)>> >>)

DocumentOf(key) ==
    CASE key = "facts" -> FactsDocument
      [] key = "narratives" -> NarrativesDocument
      [] key = "actors" -> ActorsDocument
      [] key = "calendar" -> CalendarDocument
      [] OTHER -> OtherDocument

\* the files whose absence is chosen one by one; the others are absent or
\* present together
Queried == {"facts", "narratives", "actors", "calendar", "history"}

KnowledgeDirs ==
    { [key \in Registry |->
          IF key \in absent \/ (key \notin Queried /\ rest) THEN Absent
          ELSE DocumentOf(key)] :
      absent \in SUBSET Queried, rest \in BOOLEAN }

\* what stands for a missing file
Placeholder_None == [t |-> "null", v |-> <<>>]
Placeholder == Dict(<<>>)

\* _load_all: the dict after the first n keys of the registry
RECURSIVE Loaded(_, _)
Loaded(files, n) ==
    IF n = 0 THEN Dict(<<>>)
    ELSE LET key == KNOWLEDGE_FILES[n]
         IN SetItem(Loaded(files, n - 1), key,
                    IF files[key] # Absent THEN Decoded(files[key]) ELSE Placeholder)

KBFrame == UNCHANGED <<clock, draftVars, corpusVars, daemonVars, publishVars, kfiles>>

\* KnowledgeBase(base_dir)
kb_load ==
    /\ kdata = NotLoaded
    /\ kcall' = "_load_all" /\ kargs' = <<>>
    /\ kdata' = Loaded(kfiles, Len(KNOWLEDGE_FILES))
    /\ kret' = <<"ok">>
    /\ KBFrame

Raised(error) == <<"raise", error>>
Returned(list) == <<"ok", list>>

\* self.data.get(key, {}).get(listkey, []): the list, or the exception
ListOf(data, key, listkey) ==
    LET doc == Get(data, key, Dict(<<>>))
    IN IF doc.t # "obj" THEN Raised("AttributeError")
       ELSE Returned(Get(doc, listkey, List(<<>>)).v)

\* [x for x in list if x.get(field) == value]
Where(list, field, value) ==
    SelectSeq(list, LAMBDA x : Get(x, field, Str(None)) = Str(value))

\* get_facts, get_actors, get_narratives
Filtered(data, key, field, value) ==
    LET all == ListOf(data, key, key)
    IN IF all[1] = "raise" THEN all
       ELSE IF Truthy(value) THEN Returned(Where(all[2], field, value)) ELSE all

get_facts(category) == Filtered(kdata, "facts", "category", category)
get_actors(actor_type) == Filtered(kdata, "actors", "type", actor_type)
get_narratives(status) == Filtered(kdata, "narratives", "status", status)

\* query_lower in x.get(field, "").lower()
Mentions(x, field, query_lower) ==
    IsInfix(query_lower, LowerStr(Get(x, field, Str(<<>>)).v))

Tagged(list, type) == [i \in 1..Len(list) |-> [type |-> type, data |-> list[i]]]

search(query) ==
    LET query_lower == LowerStr(query)
        facts == get_facts(None)
        narratives == ListOf(kdata, "narratives", "narratives")
        actors == ListOf(kdata, "actors", "actors")
    IN IF facts[1] = "raise" THEN facts
       ELSE IF narratives[1] = "raise" THEN narratives
       ELSE IF actors[1] = "raise" THEN actors
       ELSE Returned(
              Tagged(SelectSeq(facts[2],
                               LAMBDA f : Mentions(f, "statement", query_lower)), "fact")
              \o Tagged(SelectSeq(narratives[2],
                               LAMBDA n : Mentions(n, "title", query_lower)
                                          \/ Mentions(n, "description", query_lower)),
                        "narrative")
              \o Tagged(SelectSeq(actors[2],
                               LAMBDA a : Mentions(a, "name", query_lower)
                                          \/ Mentions(a, "role", query_lower)), "actor"))

\* the arguments of the queries
Categories == {None, <<>>, <<"west">>}
ActorTypes == {None, <<"foreign">>}
Statuses == {None, <<"active">>}
SearchQueries == {<<>>, <<"FIRE">>, <<"Carter">>, <<"nothing">>}

kb_get_facts ==
    /\ kdata # NotLoaded
    /\ kcall' = "get_facts"
    /\ \E c \in Categories : kargs' = <<c>> /\ kret' = get_facts(c)
    /\ UNCHANGED kdata /\ KBFrame

kb_get_actors ==
    /\ kdata # NotLoaded
    /\ kcall' = "get_actors"
    /\ \E c \in ActorTypes : kargs' = <<c>> /\ kret' = get_actors(c)
    /\ UNCHANGED kdata /\ KBFrame

kb_get_narratives ==
    /\ kdata # NotLoaded
    /\ kcall' = "get_narratives"
    /\ \E c \in Statuses : kargs' = <<c>> /\ kret' = get_narratives(c)
    /\ UNCHANGED kdata /\ KBFrame

kb_search ==
    /\ kdata # NotLoaded
    /\ kcall' = "search"
    /\ \E q \in SearchQueries : kargs' = <<q>> /\ kret' = search(q)
    /\ UNCHANGED kdata /\ KBFrame

\* f"{n:02d}"
Pad2_Unpadded(n) == IF n < 0 THEN <<"-">> \o Decimal(-n) ELSE Decimal(n)
Pad2(n) ==
    IF n < 0 THEN <<"-">> \o Decimal(-n)
    ELSE IF n < 10 THEN <<"0", Digit(n)>>
    ELSE Decimal(n)

month_names ==
    <<"january", "february", "march", "april", "may", "june", "july", "august",
      "september", "october", "november", "december">>

\* month_names[month] if 1 <= month <= 12 else ""
MonthKey(month) == IF 1 <= month /\ month <= 12 THEN month_names[month] ELSE ""

\* str.startswith
StartsWith(s, prefix) ==
    Len(s) >= Len(prefix) /\ SubSeq(s, 1, Len(prefix)) = prefix

get_anniversary_for_date(month, day) ==
    LET doc == Get(kdata, "calendar", Dict(<<>>))
    IN IF doc.t # "obj" THEN Raised("AttributeError")
       ELSE LET calendar == Get(doc, "anniversary_calendar", Dict(<<>>))
                month_events == Get(calendar, MonthKey(month), List(<<>>)).v
                date_str == Pad2(month) \o <<"-">> \o Pad2(day)
            IN Returned(SelectSeq(month_events,
                          LAMBDA event :
                             LET event_date == Get(event, "date", Str(<<>>)).v
                             IN event_date = date_str \/ StartsWith(event_date, date_str)))

\* the arguments of get_anniversary_for_date
Months == {-1, 0, 1, 2, 12, 13}
Days == {1, 11, 16}

kb_get_anniversary ==
    /\ kdata # NotLoaded
    /\ kcall' = "get_anniversary_for_date"
    /\ \E month \in Months, day \in Days :
         kargs' = <<month, day>> /\ kret' = get_anniversary_for_date(month, day)
    /\ UNCHANGED kdata /\ KBFrame

InitKB ==
    /\ InitStore
    /\ buckets = NoBuckets /\ cmd = "none" /\ cpc = "idle"
    /\ breaking = <<>> /\ commentary = <<>> /\ geopolitics = <<>>
    /\ cidx = 0 /\ cpath = NoFile /\ cid = NoFile /\ created = <<>>
    /\ autoApproved = {}
    /\ claude = FALSE /\ results = NoResults /\ faults = {}
    /\ NoEnrichment /\ NoDetection /\ NoCorpus /\ NoDaemon /\ NoPublish
    /\ kfiles \in KnowledgeDirs
    /\ kdata = NotLoaded /\ kcall = "none" /\ kargs = <<>> /\ kret = None

NextKB ==
    \/ kb_load
    \/ kb_get_facts
    \/ kb_get_actors
    \/ kb_get_narratives
    \/ kb_search
    \/ kb_get_anniversary

\* a KnowledgeBase on a knowledge directory with files missing
SpecKB == InitKB /\ [][NextKB]_vars

-----------------------------------------------------------------------------
(* Properties of the draft store *)

Files == DOMAIN pending \cup DOMAIN approved \cup DOMAIN posted

\* no handler of the engine and no run of the posting tool is in progress
Quiescent == epc = "idle" /\ ppc = "idle"

\* the number of collections that hold a record under the file name n
Copies(n) == (IF n \in DOMAIN pending THEN 1 ELSE 0)
           + (IF n \in DOMAIN approved THEN 1 ELSE 0)
           + (IF n \in DOMAIN posted THEN 1 ELSE 0)

\* the stored identifiers that the argument id matches (substring match)
Matching(dir, id) == {n \in DOMAIN dir : IsInfix(id, Stem(n))}

\* C1: after any sequence of create, approve, markPosted and reject
\* operations, no draft id has a record in two collections at once.
C1_NeverInTwoCollections ==
    epc = "idle" => \A n \in Files : Copies(n) <= 1

\* C2: after any sequence of operations the number of records in pending,
\* approved and posted together is the number of creates minus the number of
\* rejects: no create overwrites the record of a different draft.
C2_OneRecordPerDraft ==
    epc = "idle" =>
        Cardinality(DOMAIN pending) + Cardinality(DOMAIN approved)
            + Cardinality(DOMAIN posted) = nCreate - nReject

\* exactly one of the two directories holds the file
InOne(f, src, dst) == (f \in DOMAIN src) # (f \in DOMAIN dst)

\* C3: a lifecycle transition is an atomic move: no step of approve, of
\* markPosted or of the posting tool's move takes a record that is in
\* exactly one of source and destination to a state where another process
\* sees it in both, or in neither (a step of the transition is a step that
\* moves the handler's position).
C3_TransitionsAtomic ==
    [][ /\ (epc = "approve_rename" /\ epc' # epc /\ InOne(ef, pending, approved))
            => InOne(ef, pending', approved')
        /\ (epc \in {"mark_read", "mark_write", "mark_unlink"} /\ epc' # epc
              /\ InOne(ef, approved, posted))
            => InOne(ef, approved', posted')
        /\ (ppc \in {"post_read", "post_browser", "post_write", "post_unlink"}
              /\ ppc' # ppc /\ InOne(ppath, approved, posted))
            => InOne(ppath, approved', posted') ]_vars

\* C4: approve on the id of a created draft moves its record from pending to
\* approved and returns true, and no later listPending includes that id.
C4_ApprovedNeverListedAgain ==
    [][ /\ (epc = "approve_rename" /\ epc' # epc /\ ef \in DOMAIN pending)
            => /\ eret' = "true"
               /\ ef \notin DOMAIN pending'
               /\ ef \in DOMAIN approved'
        /\ (ecall' = "list_pending" /\ eret' = "list")
            => \A i \in 1..Len(elist') :
                  <<DraftFile(elist'[i].id), "pending", "moved">> \notin left' ]_vars

\* C5: approve(id) with no matching pending record, and markPosted(id) with
\* no matching approved record, return false at once, raise nothing, create
\* no file and leave the three collections unchanged.
C5_LookupMissIsFalse ==
    [][ (epc = "idle" /\ ops' = ops + 1
           /\ \/ ecall' = "approve_draft" /\ Matching(pending, earg') = {}
              \/ ecall' = "mark_posted" /\ Matching(approved, earg') = {})
        => (epc' = "idle" /\ eret' = "false" /\ UNCHANGED storeVars) ]_vars

\* a second approve of an already approved draft has returned false
C5_Witness ==
    /\ ecall = "approve_draft" /\ epc = "idle" /\ eret = "false"
    /\ Matching(approved, earg) # {}
    /\ \E n \in Matching(approved, earg) : <<n, "pending", "moved">> \in left

\* the record markPosted must write for the approved record r
IsMarked(new, r, tid) ==
    /\ DOMAIN new = DOMAIN r
    /\ new.status = "posted"
    /\ new.posted_at # None
    /\ new.tweet_id = tid
    /\ \A k \in DOMAIN r \ {"status", "posted_at", "tweet_id"} : new[k] = r[k]

\* C6: markPosted(id, externalRef) that finds a matching approved record
\* returns true; the record is then out of approved, and the record in posted
\* has status posted, a posted timestamp, tweet id externalRef and every other
\* attribute as it was in approved.
C6_MarkPostedRecord ==
    [][ /\ (epc = "idle" /\ ops' = ops + 1 /\ ecall' = "mark_posted"
              /\ Matching(approved, earg') # {})
            => (epc' # "idle" /\ ef' \in Matching(approved, earg'))
        /\ (ecall = "mark_posted" /\ epc # "idle")
            => /\ eret' # "raised"
               /\ epc' = "idle" =>
                    /\ eret' = "true"
                    /\ ef \notin DOMAIN approved'
                    /\ ef \in DOMAIN posted'
                    /\ IsMarked(posted'[ef], approved[ef], etweet) ]_vars

\* markPosted has returned true for a record with an attachment-free body
\* and an external reference
C6_Witness ==
    /\ ecall = "mark_posted" /\ epc = "idle" /\ eret = "true"
    /\ etweet # None
    /\ \E n \in Matching(posted, earg) :
          /\ posted[n].tweet_id = etweet
          /\ posted[n].status = "posted"
          /\ n \notin DOMAIN approved

\* C7: the collection holding a draft id changes only from pending to
\* approved or from approved to posted, and an id never enters a collection
\* it has left (or, for pending, any collection it has been in).
C7_OneDirectional ==
    [][ \A n \in DOMAIN pending' \cup DOMAIN approved' \cup DOMAIN posted' :
          /\ (n \notin DOMAIN pending /\ n \in DOMAIN pending')
                => /\ n \notin DOMAIN approved /\ n \notin DOMAIN posted
                   /\ \A how \in {"moved", "deleted"}, c \in {"pending", "approved", "posted"} :
                         <<n, c, how>> \notin left
          /\ (n \notin DOMAIN approved /\ n \in DOMAIN approved')
                => /\ n \in DOMAIN pending /\ n \notin DOMAIN pending'
                   /\ \A how \in {"moved", "deleted"} : <<n, "approved", how>> \notin left
          /\ (n \notin DOMAIN posted /\ n \in DOMAIN posted')
                => /\ n \in DOMAIN approved
                   /\ \A how \in {"moved", "deleted"} : <<n, "posted", how>> \notin left
      ]_vars

-----------------------------------------------------------------------------
(* Properties of the ingestion commands *)

Handles(bucket) == {bucket_files[bucket][i] : i \in DOMAIN bucket_files[bucket]}

TweetsIn(h) == IF buckets[h].exists /\ buckets[h].valid THEN buckets[h].tweets ELSE <<>>

\* a scraped item without the tags the scrape adds
Untagged(x) == [date |-> x.date, isRetweet |-> x.isRetweet, text |-> x.text]

\* result holds exactly the items of the bucket's files that are strictly
\* later than cutoff and not retweets, each as often as its file holds it
ExactlyTheRecent(result, bucket, cutoff) ==
    /\ \A j \in DOMAIN result :
          /\ result[j].bucket = bucket
          /\ result[j].handle \in Handles(bucket)
          /\ \E i \in DOMAIN TweetsIn(result[j].handle) :
                TweetsIn(result[j].handle)[i] = Untagged(result[j])
    /\ \A h \in Handles(bucket) : \A i \in DOMAIN TweetsIn(h) :
          LET x == TweetsIn(h)[i]
              inFile == Cardinality({k \in DOMAIN TweetsIn(h) : TweetsIn(h)[k] = x})
              inResult == Cardinality({j \in DOMAIN result :
                             result[j].handle = h /\ Untagged(result[j]) = x})
          IN inResult = IF x.date # NoDate /\ x.date > cutoff /\ ~x.isRetweet
                        THEN inFile ELSE 0

\* C8: when one ingestion cycle of the daemon returns, the record of every
\* draft it created from the breaking bucket is in approved and not in
\* pending, and the record of every draft it created from the commentary and
\* geopolitics buckets is in pending and not in approved.
C8_CycleRouting ==
    (cmd = "cycle" /\ cpc = "done") =>
        \A k \in DOMAIN created :
            LET f == created[k][1]
                d == created[k][3]
                inPending == f \in DOMAIN pending /\ pending[f] = d
                inApproved == f \in DOMAIN approved /\ approved[f] = d
            IN IF created[k][2] = "breaking"
               THEN inApproved /\ ~inPending
               ELSE inPending /\ ~inApproved

\* C9: when the refresh command finishes, every draft it created from the
\* breaking bucket is in approved and none is left in pending, whenever the
\* clock advances (stated for the file of each created draft, and for the
\* records in pending that come from the breaking bucket).
C9_RefreshAutoApproves ==
    (cmd = "refresh" /\ cpc = "done") =>
        /\ \A k \in DOMAIN created :
              created[k][2] = "breaking" => created[k][1] \in DOMAIN approved
        /\ \A f \in DOMAIN pending : pending[f].sources # <<>> =>
              pending[f].sources[Len(pending[f].sources)] # <<"breaking">>

\* the drafts of the breaking bucket are those of the first top candidates
BreakingDraftsAre(top) ==
    /\ Len(created) >= top
    /\ \A k \in DOMAIN created :
          IF k <= top
          THEN /\ created[k][2] = "breaking"
               /\ created[k][3].english = breaking[k].text
          ELSE created[k][2] # "breaking"

\* C10 as stated: the candidates of each bucket are exactly its items later
\* than the bucket's own cutoff that are not retweets; an older item yields
\* no draft and is never auto-approved; every item within the cutoff of the
\* breaking bucket is auto-approved.
C10_AllRecentAutoApproved ==
    [][ /\ (cpc = "scrape_breaking" /\ cpc' # cpc)
            => ExactlyTheRecent(breaking', "breaking", clock - BreakingMaxAgeSec)
        /\ (cpc = "scrape_commentary" /\ cpc' # cpc)
            => ExactlyTheRecent(commentary', "commentary", clock - OtherMaxAgeSec)
        /\ (cpc = "scrape_geopolitics" /\ cpc' # cpc)
            => ExactlyTheRecent(geopolitics', "geopolitics", clock - OtherMaxAgeSec)
        /\ (cmd' = "cycle" /\ cpc' = "done")
            => /\ autoApproved' = 1..Len(breaking')
               /\ \A k \in DOMAIN created' : created'[k][2] = "breaking" =>
                     \E j \in DOMAIN breaking' : created'[k][3].english = breaking'[j].text
      ]_vars

\* C10, amended: as C10, but of the items within the cutoff of the breaking
\* bucket the cycle auto-approves the first five of the recency-sorted
\* candidate list (approve_draft moves the draft of each), and only these
\* yield a draft.
C10_FirstFiveAutoApproved ==
    [][ /\ (cpc = "scrape_breaking" /\ cpc' # cpc)
            => ExactlyTheRecent(breaking', "breaking", clock - BreakingMaxAgeSec)
        /\ (cpc = "scrape_commentary" /\ cpc' # cpc)
            => ExactlyTheRecent(commentary', "commentary", clock - OtherMaxAgeSec)
        /\ (cpc = "scrape_geopolitics" /\ cpc' # cpc)
            => ExactlyTheRecent(geopolitics', "geopolitics", clock - OtherMaxAgeSec)
        /\ (cmd' = "cycle" /\ cpc' = "done")
            => /\ autoApproved' = 1..Min(Len(breaking'), 5)
               /\ BreakingDraftsAre(Min(Len(breaking), 5))'
      ]_vars

\* a cycle has returned whose breaking file holds an item older than the
\* cutoff and an item within it: the item within was auto-approved
C10_Witness ==
    /\ cmd = "cycle" /\ cpc = "done"
    /\ \E i \in DOMAIN TweetsIn("middleeast_24") :
          /\ TweetsIn("middleeast_24")[i].date # NoDate
          /\ TweetsIn("middleeast_24")[i].date <= Clock0 - BreakingMaxAgeSec
    /\ Len(breaking) = 1 /\ autoApproved = {1}
    /\ \E f \in DOMAIN approved : approved[f].english = breaking[1].text

\* the positions of created that hold a draft of the given buckets
CreatedFrom(bs) == {k \in DOMAIN created : created[k][2] \in bs}

\* a list is sorted by recency: the later date first
RecencySorted(list) ==
    \A i, j \in DOMAIN list : i < j => list[i].date >= list[j].date

\* C11: when an ingestion command returns it has created at most 5 drafts
\* from the breaking bucket and at most 10 from the commentary and
\* geopolitics buckets together, however long the lists are; the drafts are
\* those of the first items of the recency-sorted breaking list and of the
\* first items of the recency-sorted commentary list followed by the
\* recency-sorted geopolitics list.
C11_CycleCaps ==
    cpc = "done" =>
        LET nb == Cardinality(CreatedFrom({"breaking"}))
            no == Cardinality(CreatedFrom({"commentary", "geopolitics"}))
            others == commentary \o geopolitics
        IN /\ nb <= 5 /\ no <= 10
           /\ nb = IF Len(breaking) < 5 THEN Len(breaking) ELSE 5
           /\ no = IF Len(others) < 10 THEN Len(others) ELSE 10
           /\ Len(created) = nb + no
           /\ \A k \in 1..nb :
                 /\ created[k][2] = "breaking"
                 /\ created[k][3].english = breaking[k].text
           /\ \A k \in 1..no :
                 /\ created[nb + k][2] = others[k].bucket
                 /\ created[nb + k][3].english = others[k].text
                 /\ created[nb + k][3].sources[1] = <<"@", others[k].handle>>
           /\ RecencySorted(breaking) /\ RecencySorted(commentary)
           /\ RecencySorted(geopolitics)

\* a cycle has returned that found more than 5 breaking items and more than
\* 10 commentary and geopolitics items
C11_Witness ==
    /\ cmd = "cycle" /\ cpc = "done"
    /\ Len(breaking) > 5 /\ Len(commentary \o geopolitics) > 10
    /\ Cardinality(CreatedFrom({"breaking"})) = 5
    /\ Cardinality(CreatedFrom({"commentary", "geopolitics"})) = 10

\* the items of the cycle whose save_draft raised
SaveFailures == {f \in faults : f[1] = "save"}

\* the bucket files that exist and could not be read
Unreadable == {h \in DOMAIN buckets : buckets[h].exists /\ ~buckets[h].valid}

\* C12: when a cycle of the daemon returns in which the read of a bucket
\* file, a translation or a save_draft failed, every other item of the
\* lists was still processed, the failure is in the errors of the result,
\* the drafts created are still in the store and the result reports them as
\* created.
C12_FailureDoesNotAbort ==
    (cmd = "cycle" /\ cpc = "done") =>
        /\ Len(created) + Cardinality(SaveFailures)
              = Len(BreakingSlice) + Len(OtherSlice)
        /\ (faults # {} \/ Unreadable # {}) => results.errors # <<>>
        /\ \A k \in DOMAIN created :
              created[k][1] \in DOMAIN pending \cup DOMAIN approved
        /\ results.drafts_created = [k \in DOMAIN created |-> created[k][1]]

\* the failures of the Claude client in a step
GenerateFailures == {f \in faults' \ faults : f[1] = "generate"}

\* C13: in a step in which the Claude client fails during an enrichment, the
\* failure does not leave enrich_draft or the enrich command (the enrichment
\* ends as one without a supplemental tweet), the context computed before
\* the call is unchanged and so are the records of the store.
C13_GenerateFailureCaught ==
    [][ GenerateFailures # {} =>
            /\ xret' # "raised"
            /\ xctx' = xctx
            /\ UNCHANGED storeVars ]_vars

-----------------------------------------------------------------------------
(* Properties of the pattern detection *)

Detected == dbest # <<"not called">>

\* the position of a pattern in the trigger table, 0 when it is not there
TableIndex(pattern) ==
    IF \E i \in DOMAIN PATTERN_TRIGGERS : PATTERN_TRIGGERS[i].pattern = pattern
    THEN CHOOSE i \in DOMAIN PATTERN_TRIGGERS : PATTERN_TRIGGERS[i].pattern = pattern
    ELSE 0

\* how many keywords of the i-th pattern occur in the text, in any case
KeywordsOccurring(i, text) ==
    Cardinality({k \in DOMAIN PATTERN_TRIGGERS[i].triggers :
                    IsInfix(LowerStr(PATTERN_TRIGGERS[i].triggers[k]), LowerStr(text))})

\* C14: the list auto_detect_pattern returns is sorted by non-increasing
\* score; the score of an entry is the number of the pattern's keywords that
\* occur in the text in any case, divided by the number of the pattern's
\* keywords; every entry has a matched keyword; every pattern of the table
\* with a keyword in the text is in the list exactly once; no other pattern
\* is in the list.
C14_DetectSortedAndComplete ==
    Detected =>
        /\ \A i, j \in DOMAIN dmatches : i < j =>
              dmatches[i].num * dmatches[j].den >= dmatches[j].num * dmatches[i].den
        /\ \A i \in DOMAIN dmatches :
              LET t == TableIndex(dmatches[i].pattern)
              IN /\ t # 0
                 /\ dmatches[i].num = KeywordsOccurring(t, dtext)
                 /\ dmatches[i].den = Len(PATTERN_TRIGGERS[t].triggers)
                 /\ dmatches[i].num >= 1
                 /\ Len(dmatches[i].matched) = dmatches[i].num
        /\ \A t \in DOMAIN PATTERN_TRIGGERS :
              Cardinality({i \in DOMAIN dmatches :
                              dmatches[i].pattern = PATTERN_TRIGGERS[t].pattern})
                 = IF KeywordsOccurring(t, dtext) >= 1 THEN 1 ELSE 0

\* a text with a keyword of several pieces in another case, which holds a
\* keyword of another pattern, was given: the list has two entries of
\* different scores, the later pattern of the table first
C14_Witness ==
    /\ Detected
    /\ dtext = <<"R", "us", "sia">>
    /\ Len(dmatches) = 2
    /\ dmatches[1].pattern = <<"great_power_game">>
    /\ dmatches[2].pattern = <<"western_betrayal">>

SameScore(a, b) == a.num * b.den = b.num * a.den

\* the patterns of the table with the highest score for the text
TopPatterns(text) ==
    LET count == [t \in DOMAIN PATTERN_TRIGGERS |-> KeywordsOccurring(t, text)]
    IN {t \in DOMAIN PATTERN_TRIGGERS :
           /\ count[t] >= 1
           /\ \A u \in DOMAIN PATTERN_TRIGGERS :
                 count[t] * Len(PATTERN_TRIGGERS[u].triggers)
                    >= count[u] * Len(PATTERN_TRIGGERS[t].triggers)}

\* C15: two entries of the list with equal scores are in the order of the
\* trigger table, and detect_pattern returns the pattern listed first in
\* the table among those with the highest score.
C15_TiesInTableOrder ==
    Detected =>
        /\ \A i, j \in DOMAIN dmatches :
              (i < j /\ SameScore(dmatches[i], dmatches[j])) =>
                  TableIndex(dmatches[i].pattern) < TableIndex(dmatches[j].pattern)
        /\ LET top == TopPatterns(dtext)
           IN top # {} =>
                 dbest = PATTERN_TRIGGERS[CHOOSE t \in top : \A u \in top : t <= u].pattern

\* a text was given for which three patterns have the same score
C15_Witness ==
    /\ Detected
    /\ Len(dmatches) = 3
    /\ SameScore(dmatches[1], dmatches[2]) /\ SameScore(dmatches[2], dmatches[3])
    /\ dbest = <<"fire_parallel">>

-----------------------------------------------------------------------------
(* Properties of the enrichment *)

\* an enrichment has computed the context of the draft in xdraft
ContextComputed ==
    xdraft # NoDraft /\ xret \in {"returned", "shown", "running", "saved"}

\* C16: the pattern an enrichment uses for a draft is the first entry of the
\* detection on the draft's text, and massacre_escalation when the detection
\* returns nothing, whatever the other fields of the draft are.
C16_FallbackIsFixed ==
    ContextComputed =>
        LET matches == auto_detect_pattern(xdraft.english)
            expected == IF matches = <<>> THEN <<"massacre_escalation">>
                        ELSE matches[1].pattern
        IN /\ xctx.pattern = expected
           /\ "detected_pattern" \in DOMAIN xdraft => xdraft.detected_pattern = expected

-----------------------------------------------------------------------------
(* Properties of the listing *)

\* how often a record is in a list, and in how many files of a directory
TimesListed(list, rec) == Cardinality({i \in DOMAIN list : list[i] = rec})
TimesStored(dir, rec) == Cardinality({f \in DOMAIN dir : dir[f] = rec})

\* C17: the list that list_pending returns holds exactly the records that
\* are in pending when it returns, each once per file, whatever earlier
\* calls returned, and is ordered by created_at, the latest first.
C17_ListIsPendingSorted ==
    [][ (epc = "list_read" /\ eret' = "list") =>
            /\ Len(elist') = Cardinality(DOMAIN pending')
            /\ \A f \in DOMAIN pending' :
                  TimesListed(elist', pending'[f]) = TimesStored(pending', pending'[f])
            /\ \A i, j \in DOMAIN elist' :
                  i < j => ~StrLess(elist'[i].created_at, elist'[j].created_at) ]_vars

\* list_pending has returned two drafts created in different seconds
C17_Witness ==
    /\ ecall = "list_pending" /\ epc = "idle" /\ eret = "list"
    /\ Len(elist) = 2
    /\ StrLess(elist[2].created_at, elist[1].created_at)
    /\ Cardinality(DOMAIN pending) = 2

\* C18: list_pending on a pending directory that holds well-formed records
\* and a malformed one raises nothing and returns all the well-formed
\* records.
C18_MalformedIsSkipped ==
    (/\ ecall = "list_pending" /\ epc = "idle"
     /\ \E f \in DOMAIN pending : pending[f] = Malformed
     /\ \E f \in DOMAIN pending : pending[f] # Malformed)
        => /\ eret = "list"
           /\ \A f \in DOMAIN pending :
                 pending[f] # Malformed => TimesListed(elist, pending[f]) = 1

-----------------------------------------------------------------------------
(* Properties of the store under concurrent runs *)

\* the file the engine is about to read, rename or delete is gone
EngineFileGone ==
    \/ epc = "list_read" /\ eglob # <<>> /\ Head(eglob) \notin DOMAIN pending
    \/ epc = "approve_rename" /\ ef \notin DOMAIN pending
    \/ epc \in {"mark_read", "mark_unlink"} /\ ef \notin DOMAIN approved

\* the file the posting tool is about to read is gone
PosterFileGone == ppc = "post_read" /\ ppath \notin DOMAIN approved

\* C19: when the file an operation of the store found in its listing is gone
\* at the time the operation reads, renames or deletes it, removed by the
\* posting tool or another run, the operation goes on as for a record that
\* does not exist and raises nothing.
C19_ToleratesDisappearingFile ==
    [][ /\ (EngineFileGone /\ epc' # epc) => eret' # "raised"
        /\ (PosterFileGone /\ ppc' # ppc) => pret' # "raised" ]_vars

\* C20: a record that is in posted is never modified, overwritten or deleted
\* by a later step, whatever identifier, full or shortened, the operations
\* are given; reject and attach touch pending and approved only.
C20_PostedIsImmutable ==
    [][ \A f \in DOMAIN posted : f \in DOMAIN posted' /\ posted'[f] = posted[f] ]_vars
-----------------------------------------------------------------------------
(* Properties of the generation history *)

RecentDraftsOf(h) == Get(h, "recentDrafts", List(<<>>)).v
PublishedTweetsOf(h) == Get(h, "publishedTweets", List(<<>>)).v

\* C21: after any sequence of add_draft and add_published calls,
\* recentDrafts holds at most 50 entries, the drafts added last in the order
\* they were added, and publishedTweets holds every published entry in the
\* order it was added; a save that succeeded wrote the same lists.
C21_RecentCappedPublishedWhole ==
    history # NotLoaded =>
        /\ Len(RecentDraftsOf(history)) <= RecentCap
        /\ RecentDraftsOf(history) = LastN(hadded, RecentCap)
        /\ PublishedTweetsOf(history) = hpub
        /\ (hcall \in {"add_draft", "add_published"} /\ hret[1] = "ok") =>
              /\ RecentDraftsOf(Decoded(hfile)) = LastN(hadded, RecentCap)
              /\ PublishedTweetsOf(Decoded(hfile)) = hpub

\* drafts were added beyond the cap, and published entries as well
C21_Witness ==
    /\ history # NotLoaded
    /\ hcall = "add_draft" /\ hret[1] = "ok"
    /\ Len(hadded) > RecentCap + 1
    /\ Len(RecentDraftsOf(history)) = RecentCap
    /\ Len(hpub) >= 1
    /\ hpub[Len(hpub)] \notin {OldPublished[1], OldPublished[2]}

\* the document with the last-updated timestamp blanked
Undated(h) ==
    IF Has(h, "metadata") /\ Item(h, "metadata").t = "obj"
    THEN SetItem(h, "metadata", SetItem(Item(h, "metadata"), "lastUpdated", Str(<<>>)))
    ELSE h

\* C22: for every document the counterpart may have written, load followed
\* by save raises no error, and loading the document saved yields the object
\* loaded first, the last-updated timestamp aside.
C22_RoundTrip ==
    [][(hcall = "_load_history" /\ hret = <<"ok">> /\ hcall' = "save_history") =>
          /\ hret' = <<"ok">>
          /\ hfile' # Partial
          /\ Undated(Decoded(hfile')) = Undated(history)]_vars

-----------------------------------------------------------------------------
(* Properties of the daemon command *)

\* C23: the cycles of the daemon never overlap, and after every cycle,
\* also one that recorded or raised an error, the daemon sleeps and starts
\* the next cycle.
C23_CyclesRepeat ==
    /\ [][dcycle' # dcycle => cpc \in {"idle", "done"}]_vars
    /\ \A k \in 1..(MaxCycles - 1) : (dcycle = k) ~> (dcycle = k + 1)

-----------------------------------------------------------------------------
(* Properties of the knowledge base *)

MissingFile(key) == kfiles[key] = Absent

\* the types of the results of a search
TypesFound(list) == {list[i].type : i \in 1..Len(list)}

\* C24: whatever files of the registry are missing, load completes with an
\* empty structure for each missing document, and get_facts, get_actors,
\* get_narratives and search raise nothing and return nothing of a missing
\* document.
C24_MissingFilesAreEmpty ==
    kdata # NotLoaded =>
        /\ kret[1] = "ok"
        /\ Keys(kdata) = Registry
        /\ \A key \in Registry : MissingFile(key) => Item(kdata, key) = Dict(<<>>)
        /\ (kcall = "get_facts" /\ MissingFile("facts")) => kret[2] = <<>>
        /\ (kcall = "get_actors" /\ MissingFile("actors")) => kret[2] = <<>>
        /\ (kcall = "get_narratives" /\ MissingFile("narratives")) => kret[2] = <<>>
        /\ kcall = "search" =>
              /\ MissingFile("facts") => "fact" \notin TypesFound(kret[2])
              /\ MissingFile("narratives") => "narrative" \notin TypesFound(kret[2])
              /\ MissingFile("actors") => "actor" \notin TypesFound(kret[2])

\* a search on a knowledge base without facts and actors found a narrative
C24_Witness ==
    /\ kdata # NotLoaded
    /\ MissingFile("facts") /\ MissingFile("actors") /\ ~MissingFile("narratives")
    /\ kcall = "search" /\ kargs = << <<"FIRE">> >>
    /\ kret[1] = "ok" /\ Len(kret[2]) = 1

\* the name of a month of the year
NameOfMonth(month) ==
    CASE month = 1 -> "january" [] month = 2 -> "february" [] month = 3 -> "march"
      [] month = 4 -> "april" [] month = 5 -> "may" [] month = 6 -> "june"
      [] month = 7 -> "july" [] month = 8 -> "august" [] month = 9 -> "september"
      [] month = 10 -> "october" [] month = 11 -> "november" [] month = 12 -> "december"

\* "MM-DD" for a month and a day of two digits at most
MMDD(month, day) ==
    <<Digit(month \div 10), Digit(month % 10), "-", Digit(day \div 10), Digit(day % 10)>>

\* the records listed under a month in the calendar file
EventsOfMonth(month) ==
    IF MissingFile("calendar") THEN <<>>
    ELSE Item(Item(Decoded(kfiles["calendar"]), "anniversary_calendar"),
              NameOfMonth(month)).v

\* the record is dated MM-DD, or MM-DD and more
DatedAt(event, mmdd) ==
    /\ Has(event, "date")
    /\ Len(Item(event, "date").v) >= Len(mmdd)
    /\ \A i \in 1..Len(mmdd) : Item(event, "date").v[i] = mmdd[i]

\* C25: for a month outside 1..12 get_anniversary_for_date returns an empty
\* result and raises nothing; for a valid month it returns exactly the
\* records of that month whose date is, or starts with, the zero-padded
\* "MM-DD".
C25_AnniversaryForDate ==
    kcall = "get_anniversary_for_date" =>
        LET month == kargs[1]
            day == kargs[2]
        IN /\ kret[1] = "ok"
           /\ month \notin 1..12 => kret[2] = <<>>
           /\ month \in 1..12 =>
                 kret[2] = SelectSeq(EventsOfMonth(month),
                                     LAMBDA e : DatedAt(e, MMDD(month, day)))

\* month 13, day 1 was asked of a knowledge base that has a calendar
C25_Witness ==
    /\ kcall = "get_anniversary_for_date" /\ kargs = <<13, 1>>
    /\ ~MissingFile("calendar") /\ kret = <<"ok", <<>> >>

-----------------------------------------------------------------------------
(* Properties of the shared document *)

\* the entry is in the list of the document on disk
InDocument(a) ==
    /\ hfile.t = "obj"
    /\ \E i \in 1..Len(Get(Decoded(hfile), a[1], List(<<>>)).v) :
          Get(Decoded(hfile), a[1], List(<<>>)).v[i] = Decoded(a[2])

\* C26: an entry the counterpart appended to the shared document after this
\* system loaded it is still in the document after this system's next
\* add_draft or add_published has saved; only the cap of the recent drafts
\* removes an entry.
C26_AppendOnlyAcrossProcesses ==
    (hcall \in {"add_draft", "add_published"} /\ hret[1] = "ok") =>
        \A a \in hforeign :
           \/ InDocument(a)
           \/ /\ a[1] = "recentDrafts"
              /\ Len(RecentDraftsOf(Decoded(hfile))) = RecentCap

-----------------------------------------------------------------------------
(* twitter_poster.py: invocations of the tool side by side, each its own
   process, and mark_posted of the engine, on one approved draft *)

\* how the tool is invoked: <draft_id>, <draft_id> --fa, <draft_id> --both
Modes == {"english", "persian", "both"}

\* the look-up of draft_path: post_tweet tries <id>.json, then
\* draft_<id>.json; post_both_languages tries them in the other order
Lookup(a, mode) ==
    LET plain == a \o <<".json">>
        prefixed == <<"draft_">> \o a \o <<".json">>
    IN IF mode = "both"
       THEN IF prefixed \in DOMAIN approved THEN prefixed ELSE plain
       ELSE IF plain \in DOMAIN approved THEN plain ELSE prefixed

\* the text that is sent; the thread of --both needs the english text
TweetText(draft, mode) ==
    IF mode = "persian" /\ draft.persian # <<>> THEN draft.persian
    ELSE draft.english

PublishFrame ==
    UNCHANGED <<clock, engVars, postVars, ops, posts, cycleVars, enrichVars,
                detectVars, corpusVars, daemonVars, kbVars>>

\* the look-up, open(draft_path) + json.load and the choice of the text
tool_find(i) ==
    /\ tpc[i] = "idle"
    /\ \E a \in PostArgs, mode \in Modes :
         LET path == Lookup(a, mode)
         IN IF path \notin DOMAIN approved
            THEN /\ tpc' = [tpc EXCEPT ![i] = "done"]
                 /\ tret' = [tret EXCEPT ![i] = "not found"]
                 /\ UNCHANGED <<tpath, tdraft>>
            ELSE IF approved[path] = Malformed
            THEN /\ tpc' = [tpc EXCEPT ![i] = "done"]
                 /\ tret' = [tret EXCEPT ![i] = "raised"]
                 /\ UNCHANGED <<tpath, tdraft>>
            ELSE IF TweetText(approved[path], mode) = <<>>
            THEN /\ tpc' = [tpc EXCEPT ![i] = "done"]
                 /\ tret' = [tret EXCEPT ![i] = "no text"]
                 /\ UNCHANGED <<tpath, tdraft>>
            ELSE /\ tpc' = [tpc EXCEPT ![i] = "browser"]
                 /\ tpath' = [tpath EXCEPT ![i] = path]
                 /\ tdraft' = [tdraft EXCEPT ![i] = approved[path]]
                 /\ tret' = [tret EXCEPT ![i] = "running"]
    /\ UNCHANGED <<storeVars, histVars, sent>>
    /\ PublishFrame

\* the browser session up to the click on the Post button: the text is sent
tool_publish(i) ==
    /\ tpc[i] = "browser"
    /\ sent' = Append(sent, tpath[i])
    /\ tpc' = [tpc EXCEPT ![i] = "write"]
    /\ UNCHANGED <<storeVars, histVars, tpath, tdraft, tret>>
    /\ PublishFrame

\* the browser session fails before the click (not logged in, a locator
\* that times out): nothing is sent
tool_error(i) ==
    /\ tpc[i] = "browser"
    /\ tpc' = [tpc EXCEPT ![i] = "done"]
    /\ tret' = [tret EXCEPT ![i] = "error"]
    /\ UNCHANGED <<storeVars, histVars, tpath, tdraft, sent>>
    /\ PublishFrame

\* open(posted_path, 'w') + json.dump
tool_write(i) ==
    /\ tpc[i] = "write"
    /\ posted' = Write(posted, tpath[i], PostedDraft(tdraft[i], clock))
    /\ tpc' = [tpc EXCEPT ![i] = "unlink"]
    /\ UNCHANGED <<pending, approved, histVars, tpath, tdraft, tret, sent>>
    /\ PublishFrame

\* draft_path.unlink(); a missing file raises into the except clause
tool_unlink(i) ==
    /\ tpc[i] = "unlink"
    /\ approved' = Remove(approved, tpath[i])
    /\ UNCHANGED <<pending, posted>>
    /\ left' = Departed("moved", pending', approved', posted')
    /\ tret' = [tret EXCEPT ![i] =
                   IF tpath[i] \in DOMAIN approved THEN "url" ELSE "error"]
    /\ tpc' = [tpc EXCEPT ![i] = "done"]
    /\ UNCHANGED <<nCreate, nReject, tpath, tdraft, sent>>
    /\ PublishFrame

\* one draft was created and approved; no invocation has started
ApprovedFile == DraftFile(strftime(Clock0))

InitPublish ==
    /\ clock = Clock0
    /\ pending = EmptyDir /\ posted = EmptyDir
    /\ \E e \in Texts, p \in {<<>>, <<"salam">>} :
         approved = Write(EmptyDir, ApprovedFile,
                          NewDraft(Clock0, e, p, <<"unknown">>, <<>>))
    /\ epc = "idle" /\ ecall = "none" /\ earg = NoFile /\ etweet = None
    /\ ef = NoFile
    /\ edraft = NoDraft /\ eret = "none" /\ elist = <<>> /\ eglob = <<>>
    /\ ppc = "idle" /\ parg = NoFile /\ ppath = NoFile /\ pdraft = NoDraft
    /\ pret = "none"
    /\ ops = 0 /\ posts = 0
    /\ nCreate = 1 /\ nReject = 0 /\ left = {<<ApprovedFile, "pending", "moved">>}
    /\ buckets = NoBuckets /\ cmd = "none" /\ cpc = "idle"
    /\ breaking = <<>> /\ commentary = <<>> /\ geopolitics = <<>>
    /\ cidx = 0 /\ cpath = NoFile /\ cid = NoFile /\ created = <<>>
    /\ autoApproved = {}
    /\ claude = FALSE /\ results = NoResults /\ faults = {}
    /\ NoEnrichment /\ NoDetection /\ NoCorpus /\ NoDaemon /\ NoKB
    /\ tpc = [i \in Tools |-> "idle"] /\ tpath = [i \in Tools |-> NoFile]
    /\ tdraft = [i \in Tools |-> NoDraft] /\ tret = [i \in Tools |-> "none"]
    /\ sent = <<>>

NextPublish ==
    \/ Tick
    \/ mark_posted_glob
    \/ mark_posted_read
    \/ mark_posted_write
    \/ mark_posted_unlink
    \/ \E i \in Tools : tool_find(i)
    \/ \E i \in Tools : tool_publish(i)
    \/ \E i \in Tools : tool_error(i)
    \/ \E i \in Tools : tool_write(i)
    \/ \E i \in Tools : tool_unlink(i)

SpecPublish == InitPublish /\ [][NextPublish]_vars

-----------------------------------------------------------------------------
(* More properties of the draft store *)

\* C27: after any sequence of create, approve, markPosted and posting-tool
\* operations, every record in pending has status "pending", every record
\* in approved has status "approved", and every record in posted has status
\* "posted" and a posted timestamp.
C27_StatusNamesCollection ==
    Quiescent =>
        /\ \A f \in DOMAIN pending : pending[f].status = "pending"
        /\ \A f \in DOMAIN approved : approved[f].status = "approved"
        /\ \A f \in DOMAIN posted :
              posted[f].status = "posted" /\ posted[f].posted_at # None

\* the file names whose record differs between two states of a collection
Touched(before, after) ==
    {f \in DOMAIN before \cup DOMAIN after :
        \/ f \notin DOMAIN before
        \/ f \notin DOMAIN after
        \/ before[f] # after[f]}

\* C28: one approve, reject or attach command affects at most one draft
\* record: a reject or attach command deletes or modifies at most one record
\* of pending and approved together, an approve command moves at most one
\* record, and every other record is left unchanged.
C28_OneRecordPerCommand ==
    [][/\ (ops' # ops /\ ecall' \in {"reject", "attach"}) =>
            /\ Cardinality(Touched(pending, pending'))
                 + Cardinality(Touched(approved, approved')) <= 1
            /\ posted' = posted
       /\ epc = "approve_rename" =>
            /\ Cardinality(Touched(pending, pending')
                             \cup Touched(approved, approved')) <= 1
            /\ posted' = posted]_vars

\* how many times the posting tool has sent the draft of a file
TimesPublished(f) == Cardinality({k \in DOMAIN sent : sent[k] = f})

\* no invocation of the posting tool and no engine command is under way
AtRest == epc = "idle" /\ \A i \in Tools : tpc[i] \in {"idle", "done"}

\* C29: an approved draft is published at most once, in every interleaving
\* of posting-tool invocations and mark_posted calls on it and after any
\* posting attempt that ends in an error; and, once the invocations have
\* ended, it is in posted if and only if it was published (by the tool, or
\* as mark_posted reports).
C29_PublishedAtMostOnce ==
    \A f \in {ApprovedFile} :
        /\ TimesPublished(f) <= 1
        /\ AtRest =>
             (f \in DOMAIN posted <=>
                \/ TimesPublished(f) >= 1
                \/ f \in DOMAIN posted /\ posted[f].status = "posted")

-----------------------------------------------------------------------------
(* More properties of the generation history *)

\* C30: the queries of the generation history are read-only: a call of
\* get_published, get_best_template or get_recent_drafts leaves the content
\* and the order of publishedTweets and recentDrafts as they were, whatever
\* its query, pattern and min_engagement arguments.
C30_QueriesReadOnly ==
    [][(hops' # hops
          /\ hcall' \in {"get_published", "get_best_template", "get_recent_drafts"})
       => /\ PublishedTweetsOf(history') = PublishedTweetsOf(history)
          /\ RecentDraftsOf(history') = RecentDraftsOf(history)]_vars

====
